---- MODULE Spec2Model ----
(***************************************************************************)
(* Calendar Availability & Resolution Engine of the scheduler agent        *)
(* (src/scheduler_agent.py, src/functions.py).                              *)
(*                                                                         *)
(* A timezone-aware datetime is modelled by the number of seconds between  *)
(* 00:00:00 of date 0 in DEFAULT_TIMEZONE and the instant it names; the    *)
(* zone has a fixed UTC offset (the default zone is UTC).  A date is a day *)
(* number.  A string is a record of the characters that matter: its        *)
(* literal shape and its date and time fields.                             *)
(***************************************************************************)
EXTENDS Integers, Sequences, FiniteSets, TLC

VARIABLES
    calendar_service,   \* self._calendar_service: "None" or "service"
    calendar,           \* the provider's calendar: the set of busy events
    op,                 \* the operation of the last call
    args,               \* the arguments of the last call
    requests,           \* the Gateway requests the last call issued, in order
    busy_times,         \* the busy list the Gateway answered the last call with
    busy_periods,       \* the local list busy_periods of the last scan
    available_slots,    \* the local list available_slots of the last scan
    result,             \* what the last call returned
    last_scan,          \* arguments, busy list and slots of the last completed scan
    events,             \* the provider's event records, in the order inserted
    error,              \* the exception the last call ended with, if any
    event_items,        \* the event list the Gateway answered the last call with
    scan                \* a scan followed step by step: where it stands, and
                        \* its locals current_date and slot_start

vars == <<calendar_service, calendar, op, args, requests, busy_times,
          busy_periods, available_slots, result, last_scan, events, error,
          event_items, scan>>

----------------------------------------------------------------------------
(* Bounds of the model.                                                    *)

\* Dates 1 .. LastDate can be named by a date string.
LastDate == 2

\* An initial calendar holds at most MaxEvents events.
MaxEvents == 2

\* create_calendar_event is called without end; a call that would store
\* more than MaxCreated inserted records is not explored, and with the five
\* operations together one that would store more than MaxCreated + 1.
MaxCreated == 1

\* An attendees string has at most MaxAttendees comma-separated entries.
MaxAttendees == 2

\* A recurring event of the calendar has SeriesLength occurrences.
SeriesLength == 11

\* The properties look at the grid points 0 .. GridSteps of a day.
GridSteps == 96

----------------------------------------------------------------------------
(* Datetime arithmetic (datetime, timedelta).                              *)

SecondsPerDay == 24 * 60 * 60

\* datetime(date, hour, minute, second), localized to the default zone
MakeDatetime(date, hour, minute, second) ==
    date * SecondsPerDay + hour * 3600 + minute * 60 + second

\* dt.date()
DateOf(dt) == dt \div SecondsPerDay

HourOf(dt) == (dt % SecondsPerDay) \div 3600

MinuteOf(dt) == (dt % 3600) \div 60

SecondOf(dt) == dt % 60

\* timedelta(minutes=n)
timedelta_minutes(n) == n * 60

\* timedelta(days=n), added to a date
timedelta_days(n) == n

\* dt.replace(hour=h, minute=m, second=s)
ReplaceTime(dt, h, m, s) == MakeDatetime(DateOf(dt), h, m, s)

\* tz.localize(datetime.combine(date, datetime.min.time().replace(hour=h)))
LocalizeCombine(date, h) == MakeDatetime(date, h, 0, 0)

----------------------------------------------------------------------------
(* Strings.                                                                *)

\* The five literal shapes of parse_datetime, in its order.
Formats ==
    << "%Y-%m-%dT%H:%M:%S", "%Y-%m-%dT%H:%M", "%Y-%m-%d %H:%M:%S",
       "%Y-%m-%d %H:%M", "%Y-%m-%d" >>

\* A date/time string of the given shape; a shape without a field leaves it 0.
DateTimeString(shape, date, hour, minute, second) ==
    [shape |-> shape, date |-> date, hour |-> hour, minute |-> minute,
     second |-> second]

\* A string no shape describes.
Unparseable == DateTimeString("unparseable", 0, 0, 0, 0)

HasTime(fmt) == fmt # "%Y-%m-%d"

HasSeconds(fmt) == fmt \in {"%Y-%m-%dT%H:%M:%S", "%Y-%m-%d %H:%M:%S"}

\* datetime.strptime(dt_string, fmt) succeeds: the whole string has the shape
\* and its fields are in range.  Every date of the model is a date of the
\* calendar, before date 0 as well as after it.
StrptimeMatches(s, fmt) ==
    /\ s.shape = fmt
    /\ s.hour \in 0..23 /\ s.minute \in 0..59 /\ s.second \in 0..59
    /\ (~HasTime(fmt) => s.hour = 0 /\ s.minute = 0)
    /\ (~HasSeconds(fmt) => s.second = 0)

\* datetime.strptime(dt_string, fmt), then tz.localize
StrptimeLocalized(s) == MakeDatetime(s.date, s.hour, s.minute, s.second)

\* The configured default timezone.
DEFAULT_TIMEZONE == "UTC"

\* The tzinfo of what datetime.strptime returns: no format has a %z.
StrptimeTzinfo(fmt) == "None"

\* Mutant: the parsed datetime is returned as strptime made it.
LocalizeNever(tzinfo) == tzinfo

\* if dt.tzinfo is None: dt = tz.localize(dt)
Localize(tzinfo) == IF tzinfo = "None" THEN DEFAULT_TIMEZONE ELSE tzinfo

ParseError == [ok |-> FALSE, dt |-> 0, tzinfo |-> "None"]

\* Mutant: a string no format matches is read as the first instant.
parse_datetime_guessing(s, i) ==
    IF \E k \in i..Len(Formats) : StrptimeMatches(s, Formats[k])
    THEN [ok |-> TRUE, dt |-> StrptimeLocalized(s),
          tzinfo |-> Localize(StrptimeTzinfo(s.shape))]
    ELSE [ok |-> TRUE, dt |-> 0, tzinfo |-> DEFAULT_TIMEZONE]

RECURSIVE parse_datetime_from(_, _)
parse_datetime_from(s, i) ==
    IF i > Len(Formats) THEN ParseError
    ELSE IF StrptimeMatches(s, Formats[i])
         THEN [ok |-> TRUE, dt |-> StrptimeLocalized(s),
               tzinfo |-> Localize(StrptimeTzinfo(Formats[i]))]
         ELSE parse_datetime_from(s, i + 1)

parse_datetime(s) == parse_datetime_from(s, 1)

\* dt.isoformat() of an aware datetime: date, "T", time, UTC offset
format_datetime_for_api(dt) ==
    [shape |-> "isoformat", date |-> DateOf(dt), hour |-> HourOf(dt),
     minute |-> MinuteOf(dt), second |-> SecondOf(dt), offset |-> "+00:00"]

\* s.replace('Z', '+00:00')
ReplaceZ(s) == IF s.offset = "Z" THEN [s EXCEPT !.offset = "+00:00"] ELSE s

\* datetime.fromisoformat(s)
fromisoformat(s) == MakeDatetime(s.date, s.hour, s.minute, s.second)

\* dt.strftime("%I"), dt.strftime("%p")
Hour12(dt) == ((HourOf(dt) + 11) % 12) + 1

AmPm(dt) == IF HourOf(dt) < 12 THEN "AM" ELSE "PM"

\* dt.strftime("%I:%M %p")
StrfTime12(dt) == [I |-> Hour12(dt), M |-> MinuteOf(dt), p |-> AmPm(dt)]

\* dt.strftime("%Y-%m-%d %I:%M %p")
StrfDateTime12(dt) ==
    [date |-> DateOf(dt), I |-> Hour12(dt), M |-> MinuteOf(dt), p |-> AmPm(dt)]

\* dt.strftime("%A, %B %d"): weekday, month and day of the month, no year
StrfDayName(dt) == [day |-> DateOf(dt)]

----------------------------------------------------------------------------
(* The Calendar Gateway (external): free/busy queries.                     *)

\* An event of the provider's calendar: the instants it starts and ends at.
Event(start, end) == [start |-> start, end |-> end]

\* The provider's rendering of an instant (RFC 3339, UTC, "Z" suffix).
GatewayRender(t) ==
    [shape |-> "isoformat", date |-> DateOf(t), hour |-> HourOf(t),
     minute |-> MinuteOf(t), second |-> SecondOf(t), offset |-> "Z"]

\* The provider's reading of a timeMin / timeMax string.
GatewayInstant(s) == MakeDatetime(s.date, s.hour, s.minute, s.second)

\* The events that share more than a point with the window.
EventsInside(cal, timeMin, timeMax) ==
    {e \in cal : e.start < timeMax /\ e.end > timeMin}

\* The events that only touch the window: they end where it starts or start
\* where it ends.  Whether the provider reports them is not specified.
EventsTouching(cal, timeMin, timeMax) ==
    {e \in cal : timeMin <= timeMax /\ (e.end = timeMin \/ e.start = timeMax)}

EventBefore(a, b) ==
    a.start < b.start \/ (a.start = b.start /\ a.end <= b.end)

RECURSIVE EventsInOrder(_)
EventsInOrder(S) ==
    IF S = {} THEN <<>>
    ELSE LET first == CHOOSE a \in S : \A b \in S : EventBefore(a, b)
         IN  <<first>> \o EventsInOrder(S \ {first})

RECURSIVE RenderBusy(_)
RenderBusy(spans) ==
    IF spans = <<>> THEN <<>>
    ELSE << [start |-> GatewayRender(Head(spans).start),
             end   |-> GatewayRender(Head(spans).end)] >>
         \o RenderBusy(Tail(spans))

\* The reasons the provider gives when it refuses a request.
Reasons == {"forbidden", "backendError"}

\* What service.freebusy().query(body=body).execute() can do: raise HttpError
\* with the provider's reason, answer with the busy list of the calendar for
\* the window, or answer with a busy entry that lacks its 'start'.
FreeBusyAnswers(cal, body) ==
    LET timeMin == GatewayInstant(body.timeMin)
        timeMax == GatewayInstant(body.timeMax)
    IN  {[http_error |-> TRUE, malformed |-> FALSE, busy |-> <<>>,
          reason |-> r] : r \in Reasons}
        \cup
        {[http_error |-> FALSE, malformed |-> TRUE, busy |-> <<>>,
          reason |-> ""]}
        \cup
        {[http_error |-> FALSE, malformed |-> FALSE, reason |-> "",
          busy |-> RenderBusy(EventsInOrder(
                       EventsInside(cal, timeMin, timeMax) \cup T))] :
            T \in SUBSET EventsTouching(cal, timeMin, timeMax)}

\* An event record of the provider: identifier, title and span, and whether
\* it was inserted through create_calendar_event.
StoredEvent(id, summary, start, end, inserted) ==
    [id |-> id, summary |-> summary, start |-> start, end |-> end,
     inserted |-> inserted]

\* The titles of the events a calendar of the model starts with.
SummaryOf(e) ==
    IF e.start = 86400 + 9 * 3600 THEN "Project Alpha Kick-off"
    ELSE IF e.start = 86400 + 9 * 3600 + 15 * 60 THEN "Dentist"
    ELSE "Project Alpha Review"

RECURSIVE StoreOf(_, _)
StoreOf(spans, id) ==
    IF spans = <<>> THEN <<>>
    ELSE << StoredEvent(id, SummaryOf(Head(spans)), Head(spans).start,
                        Head(spans).end, FALSE) >>
         \o StoreOf(Tail(spans), id + 1)

\* The event records behind the busy events of a calendar.
InitialEvents(cal) == StoreOf(EventsInOrder(cal), 1)

\* A calendar with a recurring event: a standup at 08:00 of each day.
SeriesEvents ==
    [i \in 1..SeriesLength |->
        StoredEvent(i, "Standup", i * 86400 + 8 * 3600,
                    i * 86400 + 8 * 3600 + 15 * 60, FALSE)]

\* The busy events of a sequence of event records.
SpansOf(store) == {Event(store[i].start, store[i].end) : i \in 1..Len(store)}

\* A list request without the q parameter.
NoKeyword == ""

\* The provider's text search: the titles a keyword finds; every title when
\* the request has no q.
KeywordMatches(q, summary) ==
    \/ q = NoKeyword
    \/ q = summary
    \/ /\ q = "Project Alpha"
       /\ summary \in {"Project Alpha Kick-off", "Project Alpha Review"}

\* The records of the store that match q and share more than a point with
\* the window.
ListedEvents(store, timeMin, timeMax, q) ==
    {i \in 1..Len(store) :
        /\ KeywordMatches(q, store[i].summary)
        /\ store[i].start < timeMax
        /\ store[i].end > timeMin}

\* orderBy='startTime': by start, records of one start as inserted
RECURSIVE ByStartTime(_, _)
ByStartTime(store, S) ==
    IF S = {} THEN <<>>
    ELSE LET first == CHOOSE i \in S : \A k \in S :
                          \/ store[i].start < store[k].start
                          \/ store[i].start = store[k].start /\ i <= k
         IN  <<store[first]>> \o ByStartTime(store, S \ {first})

\* The provider's rendering of an event record: an item of events.list.
RenderItem(e) ==
    [id      |-> e.id,
     summary |-> e.summary,
     start   |-> [dateTime |-> GatewayRender(e.start)],
     end     |-> [dateTime |-> GatewayRender(e.end)]]

RECURSIVE RenderItems(_)
RenderItems(records) ==
    IF records = <<>> THEN <<>>
    ELSE <<RenderItem(Head(records))>> \o RenderItems(Tail(records))

\* A dateTime that datetime.fromisoformat cannot read.
GarbledTime ==
    [shape |-> "garbled", date |-> 0, hour |-> 0, minute |-> 0, second |-> 0,
     offset |-> ""]

\* The first item of the list with an unreadable start.
WithGarbledStart(items) ==
    [items EXCEPT ![1] = [@ EXCEPT !.start = [dateTime |-> GarbledTime]]]

\* The first item of the list with an unreadable end.
WithGarbledEnd(items) ==
    [items EXCEPT ![1] = [@ EXCEPT !.end = [dateTime |-> GarbledTime]]]

\* What service.events().list(...).execute() can do: raise HttpError with
\* the provider's reason, or answer with the first maxResults matching
\* records in start order; the first item may lack its 'start', or have a
\* start or an end that cannot be read.
ListAnswers(store, request) ==
    LET found == ByStartTime(store,
                     ListedEvents(store, GatewayInstant(request.timeMin),
                                  GatewayInstant(request.timeMax), request.q))
        shown == RenderItems(SubSeq(found, 1,
                     IF Len(found) < request.maxResults
                     THEN Len(found) ELSE request.maxResults))
    IN  {[outcome |-> "http_error", items |-> <<>>, reason |-> r] :
            r \in Reasons}
        \cup {[outcome |-> "items", items |-> shown, reason |-> ""]}
        \cup (IF shown = <<>> THEN {}
              ELSE {[outcome |-> "no_start", items |-> shown, reason |-> ""],
                    [outcome |-> "items", items |-> WithGarbledStart(shown),
                     reason |-> ""],
                    [outcome |-> "items", items |-> WithGarbledEnd(shown),
                     reason |-> ""]})

\* What service.events().insert(...).execute() can do: raise HttpError with
\* the provider's reason, or store the event and answer with the record and
\* its new identifier.
InsertAnswers(store, body) ==
    {[outcome |-> "http_error", id |-> 0, reason |-> r] : r \in Reasons}
    \cup {[outcome |-> "created", id |-> Len(store) + 1, reason |-> ""]}

----------------------------------------------------------------------------
(* find_available_slots: the scan.                                         *)

\* start_hour, end_hour of a time preference
PreferenceHours(time_preference) ==
    IF time_preference = "morning" THEN [start_hour |-> 8, end_hour |-> 12]
    ELSE IF time_preference = "afternoon"
         THEN [start_hour |-> 12, end_hour |-> 17]
    ELSE IF time_preference = "evening"
         THEN [start_hour |-> 17, end_hour |-> 20]
    ELSE [start_hour |-> 8, end_hour |-> 18]

\* the step of the scan inside a day, in minutes
SlotStepMinutes == 30

max_slots == 5

\* busy_periods: the (busy_start, busy_end) pairs of the Gateway's busy list
RECURSIVE BusyPeriods(_)
BusyPeriods(busy) ==
    IF busy = <<>> THEN <<>>
    ELSE << [busy_start |-> fromisoformat(ReplaceZ(Head(busy).start)),
             busy_end   |-> fromisoformat(ReplaceZ(Head(busy).end))] >>
         \o BusyPeriods(Tail(busy))

\* Mutant: only the start of the slot is looked up in the busy period.
ConflictsStartOnly(slot_start, slot_end, busy_start, busy_end) ==
    slot_start >= busy_start /\ slot_start < busy_end

\* Mutant: a slot that touches a busy period conflicts with it.
ConflictsTouching(slot_start, slot_end, busy_start, busy_end) ==
    ~(slot_end < busy_start \/ slot_start > busy_end)

\* not (slot_end <= busy_start or slot_start >= busy_end)
Conflicts(slot_start, slot_end, busy_start, busy_end) ==
    ~(slot_end <= busy_start \/ slot_start >= busy_end)

\* Mutant: the loop over busy_periods stops after its first period.
IsAvailableFirstOnly(slot_start, slot_end, periods) ==
    \/ periods = <<>>
    \/ slot_end <= periods[1].busy_start
    \/ slot_start >= periods[1].busy_end

\* is_available after the loop over busy_periods
IsAvailable(slot_start, slot_end, periods) ==
    \A i \in 1..Len(periods) :
        ~Conflicts(slot_start, slot_end,
                   periods[i].busy_start, periods[i].busy_end)

\* while slot_start + timedelta(minutes=duration_minutes) <= day_end
SlotFits(slot_start, duration_minutes, day_end) ==
    slot_start + timedelta_minutes(duration_minutes) <= day_end

\* the dict appended to available_slots
SlotEntry(slot_start, slot_end) ==
    [start     |-> StrfDateTime12(slot_start),
     end       |-> StrfTime12(slot_end),
     date      |-> StrfDayName(slot_start),
     iso_start |-> format_datetime_for_api(slot_start),
     iso_end   |-> format_datetime_for_api(slot_end)]

\* Mutant: the next slot starts where the last one ended.
RECURSIVE ScanDayBackToBack(_, _, _, _)
ScanDayBackToBack(slot_start, day_end, duration_minutes, periods) ==
    IF duration_minutes <= 0
       \/ slot_start + timedelta_minutes(duration_minutes) > day_end
    THEN <<>>
    ELSE LET slot_end == slot_start + timedelta_minutes(duration_minutes)
         IN  (IF \A i \in 1..Len(periods) :
                     slot_end <= periods[i].busy_start
                     \/ slot_start >= periods[i].busy_end
              THEN <<SlotEntry(slot_start, slot_end)>>
              ELSE <<>>)
             \o ScanDayBackToBack(slot_end, day_end, duration_minutes,
                                  periods)

\* the inner loop: the slots it appends for one day, from slot_start on
RECURSIVE ScanDay(_, _, _, _)
ScanDay(slot_start, day_end, duration_minutes, periods) ==
    IF ~SlotFits(slot_start, duration_minutes, day_end) THEN <<>>
    ELSE LET slot_end == slot_start + timedelta_minutes(duration_minutes)
         IN  (IF IsAvailable(slot_start, slot_end, periods)
              THEN <<SlotEntry(slot_start, slot_end)>>
              ELSE <<>>)
             \o ScanDay(slot_start + timedelta_minutes(SlotStepMinutes),
                        day_end, duration_minutes, periods)

\* the outer loop, while current_date <= end_date_obj: the slots it appends
RECURSIVE ScanDates(_, _, _, _, _)
ScanDates(current_date, end_date_obj, hours, duration_minutes, periods) ==
    IF ~(current_date <= end_date_obj) THEN <<>>
    ELSE LET day_start == LocalizeCombine(current_date, hours.start_hour)
             day_end   == LocalizeCombine(current_date, hours.end_hour)
         IN  ScanDay(day_start, day_end, duration_minutes, periods)
             \o ScanDates(current_date + timedelta_days(1), end_date_obj,
                          hours, duration_minutes, periods)

\* available_slots[:max_slots]
RECURSIVE Take(_, _)
Take(s, n) ==
    IF n <= 0 \/ s = <<>> THEN <<>> ELSE <<Head(s)>> \o Take(Tail(s), n - 1)

\* one line of the result per slot shown: its date and its start time
RECURSIVE SlotLines(_)
SlotLines(slots) ==
    IF slots = <<>> THEN <<>>
    ELSE << [date |-> Head(slots).date,
             time |-> [I |-> Head(slots).start.I, M |-> Head(slots).start.M],
             p    |-> Head(slots).start.p] >>
         \o SlotLines(Tail(slots))

\* Mutant: the total reported is the number of slots shown.
ScanResultCapped(slots) ==
    IF slots = <<>>
    THEN [kind |-> "no_slots", total |-> 0, lines |-> <<>>, more |-> 0]
    ELSE [kind  |-> "found",
          total |-> Len(Take(slots, max_slots)),
          lines |-> SlotLines(Take(slots, max_slots)),
          more  |-> 0]

\* the string find_available_slots returns after the scan
ScanResult(slots) ==
    IF slots = <<>>
    THEN [kind |-> "no_slots", total |-> 0, lines |-> <<>>, more |-> 0]
    ELSE [kind  |-> "found",
          total |-> Len(slots),
          lines |-> SlotLines(Take(slots, max_slots)),
          more  |-> IF Len(slots) > max_slots
                    THEN Len(slots) - max_slots ELSE 0]

\* "Calendar API error: ..." and "Error ...: ..."
ApiErrorResult == [kind |-> "api_error", total |-> 0, lines |-> <<>>, more |-> 0]

ErrorResult == [kind |-> "error", total |-> 0, lines |-> <<>>, more |-> 0]

----------------------------------------------------------------------------
(* Inputs of the model.                                                    *)

Dates == 1..LastDate

At(date, hour, minute) == MakeDatetime(date, hour, minute, 0)

TimePreferences == {"morning", "afternoon", "evening", "anytime"}

DateString(d) == DateTimeString("%Y-%m-%d", d, 0, 0, 0)

FindCall(duration_minutes, start_date, end_date, time_preference) ==
    [duration_minutes |-> duration_minutes, start_date |-> start_date,
     end_date |-> end_date, time_preference |-> time_preference]

\* Calls of find_available_slots over date ranges: of one day and of more,
\* with a meeting length on the 30-minute grid at every time preference and
\* with one off the grid and one longer than a morning in the morning and
\* the afternoon; and over inverted ranges.
RangeCalls ==
    {call \in {FindCall(n, DateString(d1), DateString(d2), p) :
                  n \in {30, 45, 300}, d1 \in Dates, d2 \in Dates,
                  p \in TimePreferences} :
        IF call.start_date.date <= call.end_date.date
        THEN \/ call.duration_minutes = 30
             \/ call.time_preference \in {"morning", "afternoon"}
        ELSE call.duration_minutes = 30 /\ call.time_preference = "morning"}

\* The calls of find_available_slots: those over date ranges, and calls with
\* the other arguments the signature admits: a start with a time of day,
\* strings no shape describes, a zero and a negative duration.
FindCalls ==
    RangeCalls
    \cup
    {FindCall(30, DateTimeString("%Y-%m-%d %H:%M", 1, 15, 0, 0),
              DateString(1), "afternoon"),
     FindCall(30, DateTimeString("%Y-%m-%d %H:%M", 1, 10, 0, 0),
              DateString(1), "morning"),
     FindCall(30, Unparseable, DateString(1), "morning"),
     FindCall(30, DateString(1), Unparseable, "morning"),
     FindCall(0, DateString(1), DateString(1), "morning"),
     FindCall(-60, DateString(1), DateString(1), "evening"),
     FindCall(-840, DateString(1), DateString(2), "anytime")}

\* The calls whose repetition is observed.
RepeatedCalls ==
    {FindCall(n, DateString(1), DateString(d2), "morning") :
        n \in {30, 45}, d2 \in Dates}

\* start_datetime, end_datetime of check_specific_time_availability
CheckTimeStrings ==
    {DateTimeString("%Y-%m-%d %H:%M", 1, 9, 0, 0),
     DateTimeString("%Y-%m-%d %H:%M", 1, 10, 0, 0),
     DateTimeString("%Y-%m-%dT%H:%M:%S", 1, 10, 30, 0),
     Unparseable}

\* The events a calendar of the model can hold.
EventUniverse ==
    {Event(At(1, 9, 0), At(1, 10, 0)),
     Event(At(1, 9, 15), At(1, 10, 30)),
     Event(At(1, 17, 0), At(2, 9, 0))}

----------------------------------------------------------------------------
(* The state machine.                                                      *)

NoArgs == [none |-> TRUE]

NoScan == [done |-> FALSE, again |-> FALSE, args |-> NoArgs,
           busy_times |-> <<>>, available_slots |-> <<>>,
           result |-> ErrorResult]

NoResult == [kind |-> "none"]

\* No exception: the call returned from its try block.
NoException == [type |-> "none", about |-> "none", detail |-> NoArgs]

\* The exceptions get_calendar_service raises, one for each place it can
\* raise at: the token file cannot be read (line 83), the expired
\* credentials cannot be refreshed (line 87), the OAuth flow or the writing
\* of the token file fails (lines 89-93), no credentials were found (the
\* ValueError of lines 95-100), the client cannot be built (line 102, an
\* error of the client library).  None of them is an HttpError.
ServiceErrors ==
    {[type |-> "ValueError", about |-> "token file", detail |-> NoArgs],
     [type |-> "RefreshError", about |-> "refresh", detail |-> NoArgs],
     [type |-> "OSError", about |-> "oauth flow", detail |-> NoArgs],
     [type |-> "ValueError", about |-> "credentials", detail |-> NoArgs],
     [type |-> "Error", about |-> "build", detail |-> NoArgs]}

\* ValueError(f"Could not parse datetime: {dt_string}") of parse_datetime
ParseFailure(dt_string) ==
    [type |-> "ValueError", about |-> "parse", detail |-> dt_string]

\* HttpError of a Gateway request, with the provider's reason
HttpError(reason) ==
    [type |-> "HttpError", about |-> "gateway", detail |-> [reason |-> reason]]

\* KeyError of reading a Gateway response that lacks a key
KeyError == [type |-> "KeyError", about |-> "response", detail |-> NoArgs]

\* The exceptions of the model that are subclasses of Exception.
ExceptionTypes ==
    {"ValueError", "HttpError", "KeyError", "RefreshError", "OSError", "Error"}

\* e.reason of an HttpError, str(e) of another exception: what the failure
\* result says of the exception
ErrorText(exception) == [about |-> exception.about, detail |-> exception.detail]

\* Mutant: the handler has the except HttpError clause only.
ExceptHttpErrorOnly(exception) ==
    IF exception.type = "HttpError" THEN "api_error" ELSE "raised"

\* except HttpError as e: ... / except Exception as e: ... of a handler:
\* the outcome the handler returns for the exception, "raised" when no
\* clause catches it
ExceptClause(exception) ==
    IF exception.type = "HttpError" THEN "api_error"
    ELSE IF exception.type \in ExceptionTypes THEN "error"
    ELSE "raised"

\* The first exception of parsing start then end, as the handlers do.
FirstParseFailure(start_string, end_string) ==
    IF ~parse_datetime(start_string).ok THEN ParseFailure(start_string)
    ELSE ParseFailure(end_string)

\* SchedulerAssistant.__init__, against some calendar of the provider
InitAssistant ==
    /\ calendar_service = "None"
    /\ op = "init"
    /\ args = NoArgs
    /\ requests = <<>>
    /\ busy_times = <<>>
    /\ busy_periods = <<>>
    /\ available_slots = <<>>
    /\ result = NoResult
    /\ last_scan = NoScan
    /\ error = NoException
    /\ event_items = <<>>
    /\ scan = [pc |-> "idle", current_date |-> 0, slot_start |-> 0]

Init ==
    /\ calendar \in {c \in SUBSET EventUniverse : Cardinality(c) <= MaxEvents}
    /\ events = InitialEvents(calendar)
    /\ InitAssistant

\* get_calendar_service(): it returns the service it built, or raises
get_calendar_service ==
    {[service |-> "service", error |-> NoException]}
    \cup {[service |-> "None", error |-> e] : e \in ServiceErrors}

\* self._get_service(): get_calendar_service is called only while the handle
\* is None; a handle that exists is returned as it is
GetService ==
    IF calendar_service = "None" THEN get_calendar_service
    ELSE {[service |-> calendar_service, error |-> NoException]}

\* Mutant: the handle is set whether or not the service could be built.
ServiceAfterEager(built) == "service"

\* self._calendar_service after _get_service: the assignment of line 350
\* happens only when get_calendar_service returned
ServiceAfter(built) == built.service

\* Mutant: the query is widened to the whole days of its start and end.
FreeBusyBodyWholeDays(start_dt, end_dt) ==
    [api     |-> "freebusy.query",
     timeMin |-> format_datetime_for_api(ReplaceTime(start_dt, 0, 0, 0)),
     timeMax |-> format_datetime_for_api(ReplaceTime(end_dt, 23, 59, 59))]

\* the body of the free/busy query
FreeBusyBody(start_dt, end_dt) ==
    [api     |-> "freebusy.query",
     timeMin |-> format_datetime_for_api(start_dt),
     timeMax |-> format_datetime_for_api(end_dt)]

\* Mutant: a request the Gateway fails is sent a second time.
GatewayRequestsRetried(request) == <<request, request>>

\* service.<api>(...).execute(): the requests one execute() sends
GatewayRequests(request) == <<request>>

\* Mutant: the slot list is kept between scans.
KeptSlotList == last_scan.available_slots

\* available_slots = []
NewSlotList == <<>>

\* what find_available_slots returns from its except clauses
FindFailure(exception) ==
    (IF ExceptClause(exception) = "api_error" THEN ApiErrorResult
     ELSE [ErrorResult EXCEPT !.kind = ExceptClause(exception)])
    @@ [message |-> ErrorText(exception)]

\* The call ends with an exception: nothing of the scan is kept.
FindFails(exception) ==
    /\ busy_times' = <<>>
    /\ busy_periods' = <<>>
    /\ available_slots' = <<>>
    /\ error' = exception
    /\ result' = FindFailure(exception)
    /\ UNCHANGED last_scan

\* The call ends with an exception before any Gateway request.
FindFailsEarly(exception) ==
    /\ requests' = <<>>
    /\ FindFails(exception)

\* The call repeats the remembered scan, arguments and busy list, after a
\* call of another operation.
RepeatsLastScan(call, busy) ==
    /\ last_scan.done
    /\ last_scan.args = call
    /\ last_scan.busy_times = busy
    /\ op # "find_available_slots"

\* One call of find_available_slots, the call drawn from calls; observed says
\* whether a completed scan is remembered in last_scan.
FindAvailableSlotsOf(calls, observed) ==
    \E call \in calls, built \in GetService :
        LET start_parsed == parse_datetime(call.start_date)
            end_parsed   == parse_datetime(call.end_date)
            start_dt     == start_parsed.dt
            end_dt       == ReplaceTime(end_parsed.dt, 23, 59, 59)
            hours        == PreferenceHours(call.time_preference)
            body         == FreeBusyBody(start_dt, end_dt)
        IN  /\ op' = "find_available_slots"
            /\ args' = call
            /\ calendar_service' = ServiceAfter(built)
            /\ event_items' = <<>>
            /\ UNCHANGED <<calendar, events, scan>>
            /\ IF built.error # NoException
               THEN FindFailsEarly(built.error)
               ELSE IF ~start_parsed.ok \/ ~end_parsed.ok
               THEN FindFailsEarly(FirstParseFailure(call.start_date,
                                                     call.end_date))
               ELSE \E answer \in FreeBusyAnswers(calendar, body) :
                    /\ requests' = GatewayRequests(body)
                    /\ IF answer.http_error
                       THEN FindFails(HttpError(answer.reason))
                       ELSE IF answer.malformed THEN FindFails(KeyError)
                       ELSE /\ error' = NoException
                            /\ busy_times' = answer.busy
                            /\ busy_periods' = BusyPeriods(busy_times')
                            /\ available_slots' =
                                 NewSlotList
                                 \o ScanDates(DateOf(start_dt), DateOf(end_dt),
                                              hours, call.duration_minutes,
                                              busy_periods')
                            /\ result' = ScanResult(available_slots')
                            /\ last_scan' =
                                 IF observed
                                 THEN [done |-> TRUE,
                                       again |-> RepeatsLastScan(call,
                                                     busy_times'),
                                       args |-> call,
                                       busy_times |-> busy_times',
                                       available_slots |-> available_slots',
                                       result |-> result']
                                 ELSE last_scan

FindAvailableSlots == FindAvailableSlotsOf(FindCalls, FALSE)

\* dt.strftime("%A, %B %d at %I:%M %p")
StrfDayTime12(dt) ==
    [day |-> DateOf(dt), I |-> Hour12(dt), M |-> MinuteOf(dt), p |-> AmPm(dt)]

\* Mutant: only the first busy span of the Gateway's list is reported.
ConflictSpansFirstOnly(busy) ==
    IF busy = <<>> THEN <<>>
    ELSE << [start |-> StrfTime12(fromisoformat(ReplaceZ(busy[1].start))),
             end   |-> StrfTime12(fromisoformat(ReplaceZ(busy[1].end)))] >>

\* conflicts: one "start - end" entry per busy span of the Gateway's list
RECURSIVE ConflictSpans(_)
ConflictSpans(busy) ==
    IF busy = <<>> THEN <<>>
    ELSE << [start |-> StrfTime12(fromisoformat(ReplaceZ(Head(busy).start))),
             end   |-> StrfTime12(fromisoformat(ReplaceZ(Head(busy).end)))] >>
         \o ConflictSpans(Tail(busy))

\* if not busy_times
SlotIsFree(busy) == busy = <<>>

\* the string check_specific_time_availability returns after the query
CheckResult(start_dt, end_dt, busy) ==
    [kind  |-> IF SlotIsFree(busy) THEN "available" ELSE "not_available",
     start |-> StrfDayTime12(start_dt),
     end   |-> StrfTime12(end_dt),
     conflicts |-> IF SlotIsFree(busy) THEN <<>> ELSE ConflictSpans(busy)]

\* what check_specific_time_availability returns from its except clauses
CheckFailure(exception) ==
    [kind |-> ExceptClause(exception), start |-> StrfDayTime12(0),
     end |-> StrfTime12(0), conflicts |-> <<>>,
     message |-> ErrorText(exception)]

\* The call ends with an exception.
CheckFails(exception) ==
    /\ busy_times' = <<>>
    /\ error' = exception
    /\ result' = CheckFailure(exception)

\* One call of check_specific_time_availability, its strings drawn from
\* strings.
CheckSpecificTimeAvailabilityOf(strings) ==
    \E start_datetime \in strings, end_datetime \in strings,
       built \in GetService :
        LET start_parsed == parse_datetime(start_datetime)
            end_parsed   == parse_datetime(end_datetime)
            body         == FreeBusyBody(start_parsed.dt, end_parsed.dt)
        IN  /\ op' = "check_specific_time_availability"
            /\ args' = [start_datetime |-> start_datetime,
                        end_datetime |-> end_datetime]
            /\ calendar_service' = ServiceAfter(built)
            /\ busy_periods' = <<>>
            /\ available_slots' = <<>>
            /\ event_items' = <<>>
            /\ UNCHANGED <<calendar, last_scan, events, scan>>
            /\ IF built.error # NoException
               THEN requests' = <<>> /\ CheckFails(built.error)
               ELSE IF ~start_parsed.ok \/ ~end_parsed.ok
               THEN /\ requests' = <<>>
                    /\ CheckFails(FirstParseFailure(start_datetime,
                                                    end_datetime))
               ELSE \E answer \in FreeBusyAnswers(calendar, body) :
                    /\ requests' = GatewayRequests(body)
                    /\ IF answer.http_error
                       THEN CheckFails(HttpError(answer.reason))
                       ELSE IF answer.malformed THEN CheckFails(KeyError)
                       ELSE /\ error' = NoException
                            /\ busy_times' = answer.busy
                            /\ result' = CheckResult(start_parsed.dt,
                                                     end_parsed.dt,
                                                     answer.busy)

CheckSpecificTimeAvailability ==
    CheckSpecificTimeAvailabilityOf(CheckTimeStrings)

Next ==
    \/ FindAvailableSlots
    \/ CheckSpecificTimeAvailability

Spec == Init /\ [][Next]_vars

\* The same program, with the scans of the repeated calls remembered.
NextRepeat ==
    \/ FindAvailableSlotsOf(RepeatedCalls, TRUE)
    \/ CheckSpecificTimeAvailability

SpecRepeat == Init /\ [][NextRepeat]_vars

----------------------------------------------------------------------------
(* create_calendar_event.                                                  *)

\* An entry of a comma-separated string: text with spaces before and after.
Entry(lead, text, trail) == [lead |-> lead, text |-> text, trail |-> trail]

\* The empty string; "".split(',') is [''].
EmptyString == <<Entry(0, "", 0)>>

\* attendees.split(',')
Split(string) == string

\* email.strip()
Strip(entry) == Entry(0, entry.text, 0)

\* bool(email): the entry has a character
NonEmpty(entry) == entry.lead > 0 \/ entry.text # "" \/ entry.trail > 0

\* Mutant: the entries are kept as they were typed.
AttendeeListUnstripped(entries) ==
    SelectSeq(entries, LAMBDA email : NonEmpty(Strip(email)))

\* [email.strip() for email in attendees.split(',') if email.strip()]
RECURSIVE AttendeeList(_)
AttendeeList(entries) ==
    IF entries = <<>> THEN <<>>
    ELSE (IF NonEmpty(Strip(Head(entries)))
          THEN <<Strip(Head(entries))>> ELSE <<>>)
         \o AttendeeList(Tail(entries))

\* A key the event dict does not have, and a key it has.
Absent == [present |-> FALSE, value |-> <<>>]

Present(value) == [present |-> TRUE, value |-> value]

\* event['attendees'], set only for a non-empty string with a non-blank entry
AttendeesField(attendees) ==
    IF attendees # EmptyString /\ AttendeeList(Split(attendees)) # <<>>
    THEN Present(AttendeeList(Split(attendees)))
    ELSE Absent

\* event['description'], set only for a non-empty description
DescriptionField(description) ==
    IF description # "" THEN Present(description) ELSE Absent

\* the event dict create_calendar_event submits
EventBody(title, start_dt, end_dt, description, attendees) ==
    [api         |-> "events.insert",
     summary     |-> title,
     start       |-> format_datetime_for_api(start_dt),
     end         |-> format_datetime_for_api(end_dt),
     description |-> DescriptionField(description),
     attendees   |-> AttendeesField(attendees)]

\* "Successfully created ..." and what create_calendar_event returns from
\* its except clauses
CreateResult(kind, title, start_dt, end_dt, id) ==
    [kind  |-> kind,
     title |-> title,
     start |-> StrfDayTime12(start_dt),
     end   |-> StrfTime12(end_dt),
     id    |-> id]

\* Mutant: an exception is swallowed and success is reported.
CreateFailureSilent(exception) == CreateResult("created", "", 0, 0, 0)

\* "Failed to create event: {e.reason}" and "Error creating event: {str(e)}"
CreateFailure(exception) ==
    CreateResult(ExceptClause(exception), "", 0, 0, 0)
    @@ [message |-> ErrorText(exception)]

\* The call ends with an exception.
CreateFails(exception) ==
    /\ error' = exception
    /\ result' = CreateFailure(exception)
    /\ UNCHANGED <<calendar, events>>

CreateCall(title, start_datetime, end_datetime, description, attendees) ==
    [title |-> title, start_datetime |-> start_datetime,
     end_datetime |-> end_datetime, description |-> description,
     attendees |-> attendees]

\* start_datetime, end_datetime of create_calendar_event
CreateTimeStrings ==
    {DateTimeString("%Y-%m-%d %H:%M", 2, 9, 0, 0),
     DateTimeString("%Y-%m-%d %H:%M", 2, 10, 0, 0),
     Unparseable}

\* Calls with a title and a span: in order, empty, inverted, unparseable.
SpanCalls ==
    {CreateCall("Project Alpha Review", s, e, "", EmptyString) :
        s \in CreateTimeStrings, e \in CreateTimeStrings}

\* The entries of an attendees string.
AttendeeEntries ==
    {Entry(0, "", 0), Entry(1, "", 1), Entry(0, "ana@example.org", 0),
     Entry(1, "bo@example.org", 1)}

AttendeeStrings ==
    UNION {[1..n -> AttendeeEntries] : n \in 1..MaxAttendees}

\* Calls with attendees, and one with a description.
DetailCalls ==
    {CreateCall("Dentist", DateTimeString("%Y-%m-%d %H:%M", 2, 9, 0, 0),
                DateTimeString("%Y-%m-%d %H:%M", 2, 10, 0, 0), "", a) :
        a \in AttendeeStrings}
    \cup {CreateCall("Dentist",
                     DateTimeString("%Y-%m-%d %H:%M", 2, 9, 0, 0),
                     DateTimeString("%Y-%m-%d %H:%M", 2, 10, 0, 0),
                     "Bring the forms", EmptyString)}

\* Mutant: an accepted insert stores the event twice.
EventsInsertTwice(store, record) == Append(Append(store, record), record)

\* service.events().insert(calendarId=CALENDAR_ID, body=event).execute(),
\* accepted: the provider's store gains the record
EventsInsert(store, record) == Append(store, record)

\* The records inserted through create_calendar_event.
Inserted(store) == {i \in 1..Len(store) : store[i].inserted}

\* One call of create_calendar_event, the call drawn from calls.
CreateCalendarEventOf(calls) ==
    \E call \in calls, built \in GetService :
        LET start_parsed == parse_datetime(call.start_datetime)
            end_parsed   == parse_datetime(call.end_datetime)
            event        == EventBody(call.title, start_parsed.dt,
                                      end_parsed.dt, call.description,
                                      call.attendees)
        IN  /\ op' = "create_calendar_event"
            /\ args' = call
            /\ calendar_service' = ServiceAfter(built)
            /\ busy_times' = <<>>
            /\ busy_periods' = <<>>
            /\ available_slots' = <<>>
            /\ event_items' = <<>>
            /\ UNCHANGED <<last_scan, scan>>
            /\ IF built.error # NoException
               THEN requests' = <<>> /\ CreateFails(built.error)
               ELSE IF ~start_parsed.ok \/ ~end_parsed.ok
               THEN /\ requests' = <<>>
                    /\ CreateFails(FirstParseFailure(call.start_datetime,
                                                     call.end_datetime))
               ELSE \E answer \in InsertAnswers(events, event) :
                    /\ requests' = GatewayRequests(event)
                    /\ IF answer.outcome = "http_error"
                       THEN CreateFails(HttpError(answer.reason))
                       ELSE /\ error' = NoException
                            /\ events' =
                                 EventsInsert(events,
                                     StoredEvent(answer.id, call.title,
                                                 start_parsed.dt,
                                                 end_parsed.dt, TRUE))
                            /\ calendar' =
                                 IF start_parsed.dt < end_parsed.dt
                                 THEN calendar
                                      \cup {Event(start_parsed.dt,
                                                  end_parsed.dt)}
                                 ELSE calendar
                            /\ result' =
                                 CreateResult("created", call.title,
                                              start_parsed.dt, end_parsed.dt,
                                              answer.id)

\* One call of create_calendar_event: a call with a span, with attendees or
\* with a description.
CreateCalendarEvent == CreateCalendarEventOf(SpanCalls \cup DetailCalls)

----------------------------------------------------------------------------
(* find_calendar_event_by_name.                                            *)

\* timedelta(days=180): the horizon of the search
HorizonDays == 180

\* maxResults=10
maxResults == 10

\* event_name
Keywords == {"Project Alpha", "Dentist", "Standup", "Budget"}

\* datetime.now(tz): before the events of the model, during one of them,
\* after them, and 180 days before 09:15 of date 1.
NowChoices ==
    {MakeDatetime(0, 12, 0, 0), MakeDatetime(1, 9, 30, 0),
     MakeDatetime(LastDate + 1, 12, 0, 0),
     MakeDatetime(1 - HorizonDays, 9, 15, 0)}

\* the arguments of service.events().list
ListRequest(start_dt, end_dt, event_name) ==
    [api        |-> "events.list",
     timeMin    |-> format_datetime_for_api(start_dt),
     timeMax    |-> format_datetime_for_api(end_dt),
     q          |-> event_name,
     maxResults |-> maxResults]

\* datetime.fromisoformat(s) returns: the string is an ISO 8601 string
IsoReadable(s) == s.shape = "isoformat"

\* int(duration.total_seconds() / 60)
DurationMinutes(start_dt, end_dt) ==
    IF end_dt >= start_dt THEN (end_dt - start_dt) \div 60
    ELSE 0 - ((start_dt - end_dt) \div 60)

\* if len(events) > 1: "Note: Found {len(events)} matching events. ..."
\* The number the note gives, 0 when there is no note.
MatchNote(items) == IF Len(items) > 1 THEN Len(items) ELSE 0

ResolverResult(kind, summary, start_dt, end_dt, matches) ==
    [kind             |-> kind,
     summary          |-> summary,
     date_str         |-> DateOf(start_dt),
     time_str         |-> StrfDayTime12(start_dt),
     end_time_str     |-> StrfTime12(end_dt),
     duration_minutes |-> DurationMinutes(start_dt, end_dt),
     iso_start        |-> format_datetime_for_api(start_dt),
     iso_end          |-> format_datetime_for_api(end_dt),
     matches          |-> matches]

\* Mutant: an empty list is reported as an error.
NotFoundAsError == ResolverResult("error", "", 0, 0, 0)

\* "No events found matching ..."
NotFoundResult == ResolverResult("not_found", "", 0, 0, 0)

\* Mutant: an unreadable time is reported as an error of the call.
DegradedAsError(summary, start) == ResolverResult("error", "", 0, 0, 0)

\* "Found event: '{summary}' on {start}, but could not parse date/time: ..."
DegradedResult(summary, start) ==
    ResolverResult("degraded", summary, 0, 0, 0) @@ [start |-> start]

\* what find_calendar_event_by_name returns from its except clauses
ResolverFailure(exception) ==
    ResolverResult(ExceptClause(exception), "", 0, 0, 0)
    @@ [message |-> ErrorText(exception)]

\* what find_calendar_event_by_name returns for the items of the Gateway
ResolvedEvent(items) ==
    IF items = <<>> THEN NotFoundResult
    ELSE LET event == items[1]
             start == event.start.dateTime
             end   == event.end.dateTime
         IN  IF ~IsoReadable(ReplaceZ(start)) \/ ~IsoReadable(ReplaceZ(end))
             THEN DegradedResult(event.summary, start)
             ELSE ResolverResult("found", event.summary,
                                 fromisoformat(ReplaceZ(start)),
                                 fromisoformat(ReplaceZ(end)),
                                 MatchNote(items))

\* One call of find_calendar_event_by_name, its keyword drawn from names and
\* the time of the call from nows.
FindCalendarEventByNameOf(names, nows) ==
    \E event_name \in names, now \in nows,
       built \in GetService :
        LET start_dt == now
            end_dt   == now + timedelta_days(HorizonDays) * SecondsPerDay
            request  == ListRequest(start_dt, end_dt, event_name)
        IN  /\ op' = "find_calendar_event_by_name"
            /\ args' = [event_name |-> event_name, now |-> now]
            /\ calendar_service' = ServiceAfter(built)
            /\ busy_times' = <<>>
            /\ busy_periods' = <<>>
            /\ available_slots' = <<>>
            /\ UNCHANGED <<calendar, events, last_scan, scan>>
            /\ IF built.error # NoException
               THEN /\ requests' = <<>>
                    /\ event_items' = <<>>
                    /\ error' = built.error
                    /\ result' = ResolverFailure(built.error)
               ELSE \E answer \in ListAnswers(events, request) :
                    /\ requests' = GatewayRequests(request)
                    /\ IF answer.outcome = "http_error"
                       THEN /\ event_items' = <<>>
                            /\ error' = HttpError(answer.reason)
                            /\ result' = ResolverFailure(error')
                       ELSE IF answer.outcome = "no_start"
                       THEN /\ event_items' = <<>>
                            /\ error' = KeyError
                            /\ result' = ResolverFailure(KeyError)
                       ELSE /\ event_items' = answer.items
                            /\ error' = NoException
                            /\ result' = ResolvedEvent(answer.items)

FindCalendarEventByName == FindCalendarEventByNameOf(Keywords, NowChoices)

----------------------------------------------------------------------------
(* get_calendar_events.                                                    *)

\* the arguments of service.events().list of get_calendar_events
EventsRequest(start_dt, end_dt) ==
    [api        |-> "events.list",
     timeMin    |-> format_datetime_for_api(start_dt),
     timeMax    |-> format_datetime_for_api(end_dt),
     q          |-> NoKeyword,
     maxResults |-> maxResults]

\* "- {summary}: {time_str}": the start as "%A, %B %d at %I:%M %p", or the
\* raw start when fromisoformat cannot read it
EventLine(event) ==
    LET start == event.start.dateTime
    IN  [summary  |-> event.summary,
         time_str |-> IF IsoReadable(ReplaceZ(start))
                      THEN StrfDayTime12(fromisoformat(ReplaceZ(start)))
                      ELSE start]

RECURSIVE EventLines(_)
EventLines(items) ==
    IF items = <<>> THEN <<>>
    ELSE <<EventLine(Head(items))>> \o EventLines(Tail(items))

\* "No events found between ..." or "Found {len(events)} events:" and the
\* lines
EventsResult(items) ==
    [kind  |-> IF items = <<>> THEN "no_events" ELSE "events",
     count |-> Len(items),
     lines |-> EventLines(items)]

\* what get_calendar_events returns from its except clauses
EventsFailure(exception) ==
    [kind |-> ExceptClause(exception), count |-> 0, lines |-> <<>>,
     message |-> ErrorText(exception)]

\* start_date, end_date of get_calendar_events: one day, the days up to the
\* last, and a start no shape describes
EventsCalls ==
    {[start_date |-> DateString(1), end_date |-> DateString(d)] :
        d \in {1, LastDate}}
    \cup {[start_date |-> Unparseable, end_date |-> DateString(1)]}

\* One call of get_calendar_events.
GetCalendarEvents ==
    \E call \in EventsCalls, built \in GetService :
        LET start_parsed == parse_datetime(call.start_date)
            end_parsed   == parse_datetime(call.end_date)
            start_dt     == start_parsed.dt
            end_dt       == ReplaceTime(end_parsed.dt, 23, 59, 59)
            request      == EventsRequest(start_dt, end_dt)
        IN  /\ op' = "get_calendar_events"
            /\ args' = call
            /\ calendar_service' = ServiceAfter(built)
            /\ busy_times' = <<>>
            /\ busy_periods' = <<>>
            /\ available_slots' = <<>>
            /\ UNCHANGED <<calendar, events, last_scan, scan>>
            /\ IF built.error # NoException
               THEN /\ requests' = <<>>
                    /\ event_items' = <<>>
                    /\ error' = built.error
                    /\ result' = EventsFailure(built.error)
               ELSE IF ~start_parsed.ok \/ ~end_parsed.ok
               THEN /\ requests' = <<>>
                    /\ event_items' = <<>>
                    /\ error' = FirstParseFailure(call.start_date,
                                                  call.end_date)
                    /\ result' = EventsFailure(error')
               ELSE \E answer \in ListAnswers(events, request) :
                    /\ requests' = GatewayRequests(request)
                    /\ IF answer.outcome = "http_error"
                       THEN /\ event_items' = <<>>
                            /\ error' = HttpError(answer.reason)
                            /\ result' = EventsFailure(error')
                       ELSE IF answer.outcome = "no_start"
                       THEN /\ event_items' = <<>>
                            /\ error' = KeyError
                            /\ result' = EventsFailure(KeyError)
                       ELSE /\ event_items' = answer.items
                            /\ error' = NoException
                            /\ result' = EventsResult(answer.items)

----------------------------------------------------------------------------
(* The four operations together, on calendars that create_calendar_event   *)
(* adds to.                                                                *)

\* The calendars the four operations start with: one of at most one event,
\* or the calendar with the recurring event.
InitEngine ==
    /\ \/ /\ calendar \in {c \in SUBSET EventUniverse : Cardinality(c) <= 1}
          /\ events = InitialEvents(calendar)
       \/ /\ events = SeriesEvents
          /\ calendar = SpansOf(SeriesEvents)
    /\ InitAssistant

\* Calls of find_available_slots: a morning, two mornings, and strings no
\* shape describes.
EngineFindCalls ==
    {FindCall(30, DateString(1), DateString(d), "morning") : d \in Dates}
    \cup {FindCall(30, Unparseable, DateString(1), "morning"),
          FindCall(30, DateString(1), Unparseable, "morning")}

\* start_datetime, end_datetime of check_specific_time_availability
EngineTimeStrings ==
    {DateTimeString("%Y-%m-%d %H:%M", 2, 9, 0, 0),
     DateTimeString("%Y-%m-%d %H:%M", 2, 10, 0, 0),
     Unparseable}

\* The calls of the four operations; create_calendar_event is called with
\* the spans of SpanCalls.
NextEngine ==
    \/ FindAvailableSlotsOf(EngineFindCalls, FALSE)
    \/ CheckSpecificTimeAvailabilityOf(EngineTimeStrings)
    \/ CreateCalendarEventOf(SpanCalls)
          /\ Cardinality(Inserted(events')) <= MaxCreated
    \/ FindCalendarEventByName

SpecEngine == InitEngine /\ [][NextEngine]_vars

----------------------------------------------------------------------------
(* create_calendar_event alone, on a calendar that starts empty, called    *)
(* with the spans, the attendees strings and the description.              *)

InitCreate ==
    /\ calendar = {}
    /\ events = InitialEvents(calendar)
    /\ InitAssistant

NextCreate ==
    CreateCalendarEvent /\ Cardinality(Inserted(events')) <= MaxCreated

SpecCreate == InitCreate /\ [][NextCreate]_vars

----------------------------------------------------------------------------
(* All five operations of one SchedulerAssistant, called in any order.     *)

\* Calls of find_available_slots: a morning, a duration of zero, and a
\* start no shape describes.
OperationsFindCalls ==
    {FindCall(30, DateString(1), DateString(1), "morning"),
     FindCall(0, DateString(1), DateString(1), "morning"),
     FindCall(30, Unparseable, DateString(1), "morning")}

\* The calls of the five operations; find_calendar_event_by_name is called
\* with a keyword that has matches and one that has none, at noon of date 0,
\* before the events of the model; create_calendar_event with a span in
\* order, an inverted one, and strings no shape describes.
NextOperations ==
    \/ FindAvailableSlotsOf(OperationsFindCalls, FALSE)
    \/ CheckSpecificTimeAvailabilityOf(EngineTimeStrings)
    \/ CreateCalendarEventOf({c \in SpanCalls :
                                 c.start_datetime # c.end_datetime})
          /\ Cardinality(Inserted(events')) <= MaxCreated + 1
    \/ FindCalendarEventByNameOf({"Project Alpha", "Budget"},
                                 {MakeDatetime(0, 12, 0, 0)})
    \/ GetCalendarEvents

SpecOperations == InitEngine /\ [][NextOperations]_vars

----------------------------------------------------------------------------
(* The DateTime Normalizer on its own: parse_datetime and                  *)
(* format_datetime_for_api applied to strings and to each other's output.  *)

\* Hours, minutes and seconds a string may show; 24 and 60 are out of range.
ClockHours == {0, 9, 23, 24}

ClockMinutes == {0, 30, 60}

ClockSeconds == {0, 59}

\* The strings handed to parse_datetime; their dates lie before date 0 as
\* well as after it.
NormalizerStrings ==
    {DateTimeString(Formats[i], date, hour, minute, second) :
        i \in 1..Len(Formats), date \in {-1, 0} \cup Dates,
        hour \in ClockHours,
        minute \in ClockMinutes, second \in ClockSeconds}
    \cup {Unparseable}

\* parse_datetime(dt_string), of a string of the caller or of the string
\* format_datetime_for_api has just returned
ParseDatetime ==
    \E dt_string \in NormalizerStrings
                     \cup (IF op = "format_datetime_for_api"
                           THEN {result.string} ELSE {}) :
        /\ op' = "parse_datetime"
        /\ args' = [dt_string |-> dt_string]
        /\ result' = parse_datetime(dt_string)
        /\ UNCHANGED <<calendar_service, calendar, requests, busy_times,
                       busy_periods, available_slots, last_scan, events,
                       error, event_items, scan>>

\* format_datetime_for_api(dt), of the datetime parse_datetime has returned
FormatDatetimeForApi ==
    /\ op = "parse_datetime"
    /\ result.ok
    /\ op' = "format_datetime_for_api"
    /\ args' = [dt |-> result.dt]
    /\ result' = [string |-> format_datetime_for_api(result.dt)]
    /\ UNCHANGED <<calendar_service, calendar, requests, busy_times,
                   busy_periods, available_slots, last_scan, events, error,
                   event_items, scan>>

NextNormalizer ==
    \/ ParseDatetime
    \/ FormatDatetimeForApi

SpecNormalizer == Init /\ [][NextNormalizer]_vars

----------------------------------------------------------------------------
(* find_available_slots followed through its loops, one iteration at a     *)
(* time.                                                                   *)

\* The calls that are followed: every time preference, a positive, a zero
\* and a negative duration, one day and the days up to the last.
ScanCalls ==
    {FindCall(n, DateString(1), DateString(d), p) :
        n \in {30, 0, -60}, d \in {1, LastDate}, p \in TimePreferences}
    \cup {FindCall(30, Unparseable, DateString(1), "morning")}

\* Where a call stands: not started, at the test of the outer loop, at the
\* test of the inner loop, returned.
ScanAt(position, date, instant) ==
    [pc |-> position, current_date |-> date, slot_start |-> instant]

\* Mutant: slot_start is left where it is.
NextSlotStartStuck(slot_start) == slot_start

\* slot_start += timedelta(minutes=30)
NextSlotStart(slot_start) ==
    slot_start + timedelta_minutes(SlotStepMinutes)

\* end_date_obj = end_dt.date(), of the call that is followed
EndDateObj ==
    DateOf(ReplaceTime(parse_datetime(args.end_date).dt, 23, 59, 59))

\* day_end of the date the scan is at
DayEndOf(date) ==
    LocalizeCombine(date, PreferenceHours(args.time_preference).end_hour)

\* The call starts and runs up to the outer loop, or returns from an except
\* clause.
ScanBegins ==
    /\ scan.pc \in {"idle", "returned"}
    /\ \E call \in ScanCalls, built \in GetService :
        LET start_parsed == parse_datetime(call.start_date)
            end_parsed   == parse_datetime(call.end_date)
            start_dt     == start_parsed.dt
            end_dt       == ReplaceTime(end_parsed.dt, 23, 59, 59)
            body         == FreeBusyBody(start_dt, end_dt)
        IN  /\ op' = "find_available_slots"
            /\ args' = call
            /\ calendar_service' = ServiceAfter(built)
            /\ event_items' = <<>>
            /\ UNCHANGED <<calendar, events>>
            /\ IF built.error # NoException
               THEN /\ FindFailsEarly(built.error)
                    /\ scan' = ScanAt("returned", 0, 0)
               ELSE IF ~start_parsed.ok \/ ~end_parsed.ok
               THEN /\ FindFailsEarly(FirstParseFailure(call.start_date,
                                                        call.end_date))
                    /\ scan' = ScanAt("returned", 0, 0)
               ELSE \E answer \in FreeBusyAnswers(calendar, body) :
                    /\ requests' = GatewayRequests(body)
                    /\ IF answer.http_error
                       THEN /\ FindFails(HttpError(answer.reason))
                            /\ scan' = ScanAt("returned", 0, 0)
                       ELSE IF answer.malformed
                       THEN /\ FindFails(KeyError)
                            /\ scan' = ScanAt("returned", 0, 0)
                       ELSE /\ error' = NoException
                            /\ busy_times' = answer.busy
                            /\ busy_periods' = BusyPeriods(busy_times')
                            /\ available_slots' = NewSlotList
                            /\ result' = NoResult
                            /\ scan' = ScanAt("day_loop", DateOf(start_dt), 0)
                            /\ UNCHANGED last_scan

\* while current_date <= end_date_obj: the loop is entered and slot_start
\* is set to day_start
ScanDayBegins ==
    /\ scan.pc = "day_loop"
    /\ scan.current_date <= EndDateObj
    /\ scan' = ScanAt("slot_loop", scan.current_date,
                      LocalizeCombine(scan.current_date,
                          PreferenceHours(args.time_preference).start_hour))
    /\ UNCHANGED <<calendar_service, calendar, op, args, requests,
                   busy_times, busy_periods, available_slots, result,
                   last_scan, events, error, event_items>>

\* One iteration of the inner loop: the slot is appended when it is
\* available, and slot_start is advanced.
ScanSlot ==
    /\ scan.pc = "slot_loop"
    /\ SlotFits(scan.slot_start, args.duration_minutes,
                DayEndOf(scan.current_date))
    /\ LET slot_end == scan.slot_start
                           + timedelta_minutes(args.duration_minutes)
       IN  available_slots' =
               IF IsAvailable(scan.slot_start, slot_end, busy_periods)
               THEN Append(available_slots,
                           SlotEntry(scan.slot_start, slot_end))
               ELSE available_slots
    /\ scan' = ScanAt("slot_loop", scan.current_date,
                      NextSlotStart(scan.slot_start))
    /\ UNCHANGED <<calendar_service, calendar, op, args, requests,
                   busy_times, busy_periods, result, last_scan, events,
                   error, event_items>>

\* The inner loop ends: current_date += timedelta(days=1).
ScanDayEnds ==
    /\ scan.pc = "slot_loop"
    /\ ~SlotFits(scan.slot_start, args.duration_minutes,
                 DayEndOf(scan.current_date))
    /\ scan' = ScanAt("day_loop", scan.current_date + timedelta_days(1),
                      scan.slot_start)
    /\ UNCHANGED <<calendar_service, calendar, op, args, requests,
                   busy_times, busy_periods, available_slots, result,
                   last_scan, events, error, event_items>>

\* The outer loop ends: the call returns its result.
ScanReturns ==
    /\ scan.pc = "day_loop"
    /\ ~(scan.current_date <= EndDateObj)
    /\ result' = ScanResult(available_slots)
    /\ scan' = ScanAt("returned", scan.current_date, scan.slot_start)
    /\ UNCHANGED <<calendar_service, calendar, op, args, requests,
                   busy_times, busy_periods, available_slots, last_scan,
                   events, error, event_items>>

\* The steps of a call that has entered its loops.
ScanRuns ==
    \/ ScanDayBegins
    \/ ScanSlot
    \/ ScanDayEnds
    \/ ScanReturns

NextScan ==
    \/ ScanBegins
    \/ ScanRuns

\* A call that has started goes on running: the handler has no await, so
\* nothing suspends it between two iterations.
SpecScan == Init /\ [][NextScan]_vars /\ WF_vars(ScanRuns)

----------------------------------------------------------------------------
(* What the properties speak of.                                           *)

\* The last call was a find_available_slots that finished its scan.
Scanned ==
    op = "find_available_slots" /\ result.kind \in {"found", "no_slots"}

SlotIndexes == 1..Len(available_slots)

SlotStart(i) == fromisoformat(available_slots[i].iso_start)

SlotEnd(i) == fromisoformat(available_slots[i].iso_end)

\* The time of day of an instant on the 12-hour clock.
ClockTime(instant) ==
    LET hour == (instant % SecondsPerDay) \div 3600
    IN  [I |-> IF hour % 12 = 0 THEN 12 ELSE hour % 12,
         M |-> (instant % 3600) \div 60,
         p |-> IF hour < 12 THEN "AM" ELSE "PM"]

\* The BusySet of the last call: the intervals the Gateway answered with.
BusyIndexes == 1..Len(busy_times)

BusyStart(j) == GatewayInstant(busy_times[j].start)

BusyEnd(j) == GatewayInstant(busy_times[j].end)

\* The inclusive date range of the last find_available_slots call.
FirstDate == parse_datetime(args.start_date).dt \div SecondsPerDay

FinalDate == parse_datetime(args.end_date).dt \div SecondsPerDay

RangeDates == FirstDate..FinalDate

\* The hour range of a preference, as the specification gives it.
RangeStartHour ==
    CASE args.time_preference = "morning" -> 8
      [] args.time_preference = "afternoon" -> 12
      [] args.time_preference = "evening" -> 17
      [] OTHER -> 8

RangeEndHour ==
    CASE args.time_preference = "morning" -> 12
      [] args.time_preference = "afternoon" -> 17
      [] args.time_preference = "evening" -> 20
      [] OTHER -> 18

DayStart(date) == At(date, RangeStartHour, 0)

DayEnd(date) == At(date, RangeEndHour, 0)

DurationSeconds == args.duration_minutes * 60

\* The k-th candidate of a date on the 30-minute grid.
CandidateStart(date, k) == DayStart(date) + k * 30 * 60

CandidateEnd(date, k) == CandidateStart(date, k) + DurationSeconds

\* [s, e) overlaps no interval of the BusySet.
FreeOfBusy(s, e) == \A j \in BusyIndexes : e <= BusyStart(j) \/ s >= BusyEnd(j)

Returned(s, e) == \E i \in SlotIndexes : SlotStart(i) = s /\ SlotEnd(i) = e

----------------------------------------------------------------------------
(* C1: every slot find_available_slots returns overlaps no interval of the *)
(* BusySet: for each busy (bs, be), the slot ends at or before bs or       *)
(* starts at or after be.                                                  *)
C1_SlotsOverlapNoBusy ==
    Scanned =>
        \A i \in SlotIndexes : \A j \in BusyIndexes :
            SlotEnd(i) <= BusyStart(j) \/ SlotStart(i) >= BusyEnd(j)

\* Slots are returned around a BusySet of two overlapping intervals.
C1_Witness ==
    /\ Scanned
    /\ available_slots # <<>>
    /\ Len(busy_times) = 2
    /\ BusyStart(2) < BusyEnd(1)
    /\ \E i \in SlotIndexes : SlotEnd(i) > BusyStart(1) - 45 * 60
                              /\ SlotStart(i) < BusyStart(1)

(* C2: every returned slot starts on the 30-minute grid of a day of the    *)
(* range, at day_start + 30*k minutes for some k >= 0, in a day it also     *)
(* ends in, and is exactly duration_minutes long.                          *)
C2_SlotsOnGridWithDuration ==
    Scanned =>
        \A i \in SlotIndexes :
            /\ SlotEnd(i) - SlotStart(i) = DurationSeconds
            /\ \E date \in RangeDates :
                   /\ SlotStart(i) >= DayStart(date)
                   /\ (SlotStart(i) - DayStart(date)) % (30 * 60) = 0
                   /\ SlotEnd(i) <= DayEnd(date)

\* Slots of a duration that is no multiple of the step were returned, two of
\* them overlapping each other.
C2_Witness ==
    /\ Scanned
    /\ args.duration_minutes = 45
    /\ \E i \in SlotIndexes : \E k \in SlotIndexes :
           SlotStart(k) = SlotStart(i) + 30 * 60

\* The calendar day a slot belongs to: the day it starts in.
OwnDay(i) == SlotStart(i) \div SecondsPerDay

\* The instant lies in the hour range of the date.
InsideDayHours(instant, date) ==
    DayStart(date) <= instant /\ instant <= DayEnd(date)

(* C3 (as claimed): every returned slot lies inside the hour range of its  *)
(* own calendar day (morning 08-12, afternoon 12-17, evening 17-20,        *)
(* anytime 08-18): it starts at or after day_start and ends at or before   *)
(* day_end of the same day, so that no slot wraps past the day boundary;   *)
(* a duration longer than the hour span yields no slot.                    *)
C3_SlotsInsideDayHours ==
    Scanned =>
        /\ \A i \in SlotIndexes :
               /\ InsideDayHours(SlotStart(i), OwnDay(i))
               /\ InsideDayHours(SlotEnd(i), OwnDay(i))
        /\ DurationSeconds > (RangeEndHour - RangeStartHour) * 3600
               => available_slots = <<>>

(* C4 (as claimed): the slot sequence is in chronological order, each slot *)
(* starting strictly earlier than the next, across days as well as within  *)
(* a day, and the slots shown are the earliest ones.                       *)
C4_SlotsStrictlyChronological ==
    Scanned =>
        /\ \A i \in SlotIndexes : \A k \in SlotIndexes :
               i < k => SlotStart(i) < SlotStart(k)
        /\ \A i \in 1..Len(result.lines) :
               /\ result.lines[i].time = [I |-> ClockTime(SlotStart(i)).I,
                                          M |-> ClockTime(SlotStart(i)).M]
               /\ result.lines[i].p = ClockTime(SlotStart(i)).p
               /\ \A k \in SlotIndexes :
                      k > Len(result.lines) => SlotStart(i) < SlotStart(k)

(* C5: the slots returned are exactly the fitting free grid candidates:    *)
(* the candidate k >= 0 of a date of the range is returned if it ends at   *)
(* or before that date's day_end and overlaps no busy interval, and every  *)
(* slot returned is such a candidate; with BusySet {09:00-10:00}, morning  *)
(* and 30 minutes these are 08:00, 08:30, 10:00, 10:30, 11:00 and 11:30.   *)
FitsAndFree(date, k) ==
    /\ CandidateEnd(date, k) <= DayEnd(date)
    /\ FreeOfBusy(CandidateStart(date, k), CandidateEnd(date, k))

ScenarioA ==
    /\ Scanned
    /\ args = FindCall(30, DateString(1), DateString(1), "morning")
    /\ Len(busy_times) = 1
    /\ BusyStart(1) = At(1, 9, 0) /\ BusyEnd(1) = At(1, 10, 0)

C5_SlotsAreTheFreeCandidates ==
    /\ Scanned =>
         /\ \A date \in RangeDates : \A k \in 0..GridSteps :
                FitsAndFree(date, k)
                => Returned(CandidateStart(date, k), CandidateEnd(date, k))
         /\ \A i \in SlotIndexes : \E date \in RangeDates : \E k \in 0..GridSteps :
                /\ SlotStart(i) = CandidateStart(date, k)
                /\ SlotEnd(i) = CandidateEnd(date, k)
                /\ FitsAndFree(date, k)
    /\ ScenarioA =>
         /\ Len(available_slots) = 6
         /\ [i \in 1..6 |-> SlotStart(i)]
              = << At(1, 8, 0), At(1, 8, 30), At(1, 10, 0), At(1, 10, 30),
                   At(1, 11, 0), At(1, 11, 30) >>
         /\ \A i \in 1..6 : SlotEnd(i) = SlotStart(i) + 30 * 60

C5_Witness == ScenarioA /\ result.kind = "found"

(* C6: a candidate that only touches busy intervals at a boundary (it ends *)
(* where one starts, or starts where one ends) is available and returned;  *)
(* a candidate that lies inside a busy interval is never returned.         *)
TouchesBusy(s, e, j) == e = BusyStart(j) \/ s = BusyEnd(j)

ApartFromBusy(s, e, j) == e < BusyStart(j) \/ s > BusyEnd(j)

InsideBusy(s, e, j) ==
    /\ BusyStart(j) <= s /\ s <= BusyEnd(j)
    /\ BusyStart(j) <= e /\ e <= BusyEnd(j)
    /\ ~TouchesBusy(s, e, j)

C6_TouchingIsFreeInsideIsNot ==
    Scanned =>
        /\ \A date \in RangeDates : \A k \in 0..GridSteps :
               LET s == CandidateStart(date, k)
                   e == CandidateEnd(date, k)
               IN  (/\ e <= DayEnd(date)
                    /\ \E j \in BusyIndexes : TouchesBusy(s, e, j)
                    /\ \A j \in BusyIndexes :
                           TouchesBusy(s, e, j) \/ ApartFromBusy(s, e, j))
                   => Returned(s, e)
        /\ \A i \in SlotIndexes : \A j \in BusyIndexes :
               ~InsideBusy(SlotStart(i), SlotEnd(i), j)

\* A returned slot ends where a busy interval starts, another starts where it
\* ends, and a candidate inside that interval was left out.
C6_Witness ==
    /\ Scanned
    /\ args.duration_minutes = 30
    /\ \E j \in BusyIndexes :
           /\ \E i \in SlotIndexes : SlotEnd(i) = BusyStart(j)
           /\ \E i \in SlotIndexes : SlotStart(i) = BusyEnd(j)
           /\ \E date \in RangeDates : \E k \in 0..GridSteps :
                  /\ InsideBusy(CandidateStart(date, k), CandidateEnd(date, k), j)
                  /\ ~Returned(CandidateStart(date, k), CandidateEnd(date, k))

----------------------------------------------------------------------------
\* The last call was a check_specific_time_availability the Gateway answered.
Checked ==
    /\ op = "check_specific_time_availability"
    /\ result.kind \in {"available", "not_available"}

ProposedStart == parse_datetime(args.start_datetime).dt

ProposedEnd == parse_datetime(args.end_datetime).dt

\* not (end <= busy.start or start >= busy.end), for the proposed interval
ProposedOverlaps(j) ==
    ~(ProposedEnd <= BusyStart(j) \/ ProposedStart >= BusyEnd(j))

(* C7 (as claimed): check_specific_time_availability answers AVAILABLE     *)
(* exactly when no interval of the BusySet overlaps the proposed interval  *)
(* under the overlap predicate of find_available_slots.                    *)
C7_CheckerUsesOverlapPredicate ==
    Checked =>
        (result.kind = "available" <=> \A j \in BusyIndexes : ~ProposedOverlaps(j))

\* The proposed interval is one of the events of the calendar.
ProposedIsAnEvent ==
    /\ Checked
    /\ Event(ProposedStart, ProposedEnd) \in calendar

\* The conflict span the checker renders for the proposed interval itself.
ProposedSpan ==
    [start |-> ClockTime(ProposedStart), end |-> ClockTime(ProposedEnd)]

(* C8 (as claimed): when the proposed interval equals an existing busy     *)
(* interval, the result is CONFLICT and lists exactly one conflict span,   *)
(* equal to the proposed interval.                                         *)
C8_ExactlyOneConflictSpan ==
    ProposedIsAnEvent =>
        /\ result.kind = "not_available"
        /\ result.conflicts = <<ProposedSpan>>

(* C8 (amended): when the proposed interval equals an existing busy        *)
(* interval, the result is CONFLICT and lists one conflict span for each   *)
(* busy interval the Gateway returned, each with that interval's own start *)
(* and end; one of them equals the proposed interval, and it is the only   *)
(* one when the Gateway returned no other busy interval.                   *)
C8_OneSpanPerBusyInterval ==
    ProposedIsAnEvent =>
        /\ result.kind = "not_available"
        /\ Len(result.conflicts) = Len(busy_times)
        /\ \A j \in BusyIndexes :
               /\ result.conflicts[j].start = ClockTime(BusyStart(j))
               /\ result.conflicts[j].end = ClockTime(BusyEnd(j))
        /\ \E j \in BusyIndexes : result.conflicts[j] = ProposedSpan
        /\ Len(busy_times) = 1 => result.conflicts = <<ProposedSpan>>

\* The proposed interval is the only busy interval returned, and is listed.
C8_Witness ==
    /\ ProposedIsAnEvent
    /\ Len(busy_times) = 1
    /\ result.conflicts = <<ProposedSpan>>

\* The last call was a find_available_slots whose end_date is earlier than its
\* start_date, and it reached the Gateway.
InvertedRangeQueried ==
    /\ op = "find_available_slots"
    /\ parse_datetime(args.start_date).ok
    /\ parse_datetime(args.end_date).ok
    /\ FinalDate < FirstDate
    /\ requests # <<>>

(* C9 (as claimed): find_available_slots called with an end_date earlier   *)
(* than start_date returns the empty slot sequence, the "no available      *)
(* slots" outcome, and never an error outcome.                             *)
C9_InvertedRangeIsNeverAnError ==
    InvertedRangeQueried =>
        result.kind = "no_slots" /\ available_slots = <<>>

\* The scan's arguments, busy list and outcome as the next state has them.
RepeatedScan ==
    /\ last_scan.done
    /\ op' = "find_available_slots"
    /\ result'.kind \in {"found", "no_slots"}
    /\ args' = last_scan.args
    /\ busy_times' = last_scan.busy_times

\* The fitting free candidates of the range, each named by its date and its
\* step on the grid, and their order: by date, and by step within a date.
FreeCandidates ==
    {c \in RangeDates \X (0..GridSteps) : FitsAndFree(c[1], c[2])}

ComesBefore(c, d) == c[1] < d[1] \/ (c[1] = d[1] /\ c[2] < d[2])

\* The place of a candidate among the candidates of free in that order,
\* counted from 1.
PlaceOf(c, free) == Cardinality({d \in free : ComesBefore(d, c)}) + 1

\* The slot sequence is the free candidates in their order, and the total
\* their number: both are fixed by the arguments and the BusySet alone.
SlotsAreTheOrderedCandidates ==
    \A free \in {FreeCandidates} :
        /\ Len(available_slots) = Cardinality(free)
        /\ \A c \in free : \A place \in {PlaceOf(c, free)} :
               /\ SlotStart(place) = CandidateStart(c[1], c[2])
               /\ SlotEnd(place) = CandidateEnd(c[1], c[2])
        /\ result.total = Cardinality(free)

(* C10: two runs of find_available_slots with an identical BusySet and     *)
(* identical duration, start_date, end_date and time_preference produce    *)
(* the identical ordered slot sequence and the identical total count,      *)
(* whatever operations ran in between: the sequence of every run is the    *)
(* free candidates of its arguments and BusySet in the order of date and   *)
(* grid step, with the total their number, and a run that repeats the      *)
(* arguments and BusySet of an earlier one returns what that one returned. *)
C10_RepeatedScanIsIdentical ==
    /\ [](Scanned => SlotsAreTheOrderedCandidates)
    /\ [][RepeatedScan =>
             /\ available_slots' = last_scan.available_slots
             /\ result' = last_scan.result
             /\ result'.total = Len(last_scan.available_slots)]_vars

\* A scan was repeated, arguments and busy list, after a call of another
\* operation, and found slots.
C10_Witness ==
    /\ op = "find_available_slots"
    /\ last_scan.done
    /\ last_scan.again
    /\ last_scan.available_slots # <<>>
    /\ calendar # {}

----------------------------------------------------------------------------
(* The DateTime Normalizer.                                                *)

\* The shapes as the specification lists them, first to last.
ShapesInOrder ==
    << "%Y-%m-%dT%H:%M:%S", "%Y-%m-%dT%H:%M", "%Y-%m-%d %H:%M:%S",
       "%Y-%m-%d %H:%M", "%Y-%m-%d" >>

\* The string has the given shape, with every field in its range and no
\* field the shape does not have.
HasShape(s, shape) ==
    /\ s.shape = shape
    /\ s.hour \in 0..23 /\ s.minute \in 0..59 /\ s.second \in 0..59
    /\ (shape = "%Y-%m-%d" => s.hour = 0 /\ s.minute = 0 /\ s.second = 0)
    /\ (shape \in {"%Y-%m-%dT%H:%M", "%Y-%m-%d %H:%M"} => s.second = 0)

MatchingShapes(s) == {i \in 1..Len(ShapesInOrder) : HasShape(s, ShapesInOrder[i])}

FirstMatchingShape(s) ==
    CHOOSE i \in MatchingShapes(s) : \A k \in MatchingShapes(s) : i <= k

\* The last call was parse_datetime.
Parsed == op = "parse_datetime"

(* C11: parse_datetime returns the reading of its string under the first  *)
(* of the five shapes, in the listed order, that the string matches, and   *)
(* fails when none matches; a date-only string yields 00:00:00 of that     *)
(* date in the default timezone; every datetime returned has a timezone.   *)
C11_FirstShapeWinsAndAware ==
    Parsed =>
        LET s == args.dt_string
        IN  /\ result.ok <=> MatchingShapes(s) # {}
            /\ result.ok =>
                  /\ result.dt = s.date * 86400 + s.hour * 3600
                                   + s.minute * 60 + s.second
                  /\ Formats[FirstMatchingShape(s)] = s.shape
                  /\ result.tzinfo # "None"
            /\ HasShape(s, "%Y-%m-%d") =>
                  /\ result.ok
                  /\ result.dt = s.date * 86400
                  /\ result.tzinfo = DEFAULT_TIMEZONE

\* A date-only string of the day before date 0 was read.
C11_Witness ==
    /\ Parsed
    /\ args.dt_string = DateTimeString("%Y-%m-%d", -1, 0, 0, 0)
    /\ result.ok /\ result.dt = -86400

(* C12 (as claimed): for every datetime parse_datetime produces, parsing   *)
(* the string format_datetime_for_api makes of it succeeds and returns     *)
(* that datetime again.                                                    *)
C12_RoundTrip ==
    [][(op = "format_datetime_for_api" /\ op' = "parse_datetime"
            /\ args'.dt_string = result.string)
        => (result'.ok /\ result'.dt = args.dt)]_vars

----------------------------------------------------------------------------
(* Errors and Gateway requests of the four operations.                     *)

CreateCalled == op = "create_calendar_event"

ResolverCalled == op = "find_calendar_event_by_name"

\* The start and end strings of the last call, for the operations that
\* take them.
TakesTimes ==
    op \in {"find_available_slots", "check_specific_time_availability",
            "create_calendar_event"}

StartString ==
    IF op = "find_available_slots" THEN args.start_date
    ELSE args.start_datetime

EndString ==
    IF op = "find_available_slots" THEN args.end_date ELSE args.end_datetime

\* The string has none of the five accepted shapes.
NoShape(s) == MatchingShapes(s) = {}

\* The first of start and end that has none of the shapes.
OffendingString == IF NoShape(StartString) THEN StartString ELSE EndString

UnparseableCall == TakesTimes /\ (NoShape(StartString) \/ NoShape(EndString))

(* C13 (as claimed): when the start or the end of find_available_slots,    *)
(* check_specific_time_availability or create_calendar_event has none of   *)
(* the five shapes, the call returns an error outcome that names the parse *)
(* failure, and issues no Gateway request.                                 *)
C13_ParseFailureAlwaysNamed ==
    UnparseableCall =>
        /\ result.kind = "error"
        /\ error.about = "parse"
        /\ requests = <<>>

\* What get_calendar_service can fail of, as the source has it: reading the
\* token file, refreshing the token, the OAuth flow, no credentials found,
\* building the client.
ConstructionFailures ==
    {"token file", "refresh", "oauth flow", "credentials", "build"}

(* C13 (amended): such a call returns an error outcome and issues no       *)
(* Gateway request; when the calendar service handle could be obtained the *)
(* error names the parse failure and the offending string, and the text of *)
(* the result carries both; otherwise the error is the one the             *)
(* construction of the handle raised (an unreadable token file, a failed   *)
(* refresh, a failed OAuth flow, no credentials found or a failed build)   *)
(* and the text of the result carries that one.                            *)
C13_ParseFailureSurfaced ==
    UnparseableCall =>
        /\ result.kind = "error"
        /\ requests = <<>>
        /\ result.message = [about |-> error.about, detail |-> error.detail]
        /\ calendar_service = "service" =>
              error.about = "parse" /\ error.detail = OffendingString
        /\ calendar_service = "None" => error.about \in ConstructionFailures

\* An unparseable create call was answered with the parse failure and the
\* string it could not read.
C13_Witness ==
    /\ CreateCalled
    /\ UnparseableCall
    /\ error.about = "parse"
    /\ result.kind = "error"
    /\ result.message.detail = OffendingString

\* The records of the store that match the keyword of the last call and
\* lie in its horizon.
MatchesInHorizon ==
    {i \in 1..Len(events) :
        /\ \/ events[i].summary = args.event_name
           \/ /\ args.event_name = "Project Alpha"
              /\ events[i].summary \in {"Project Alpha Kick-off",
                                         "Project Alpha Review"}
        /\ events[i].end > args.now
        /\ events[i].start < args.now + 180 * 86400}

\* The resolver returned from its try block, with readable times.
Resolved == ResolverCalled /\ result.kind \in {"found", "not_found"}

(* C14 (as claimed): find_calendar_event_by_name resolves to the earliest- *)
(* starting event among all the events that match the keyword in the       *)
(* horizon, and when more than one matches it reports the number of        *)
(* matches.                                                                *)
C14_EarliestMatchAndCount ==
    (Resolved /\ MatchesInHorizon # {}) =>
        /\ result.kind = "found"
        /\ \E i \in MatchesInHorizon :
              /\ result.summary = events[i].summary
              /\ result.iso_start = format_datetime_for_api(events[i].start)
              /\ \A k \in MatchesInHorizon :
                    events[i].start <= events[k].start
        /\ Cardinality(MatchesInHorizon) > 1 =>
              result.matches = Cardinality(MatchesInHorizon)

(* C15: when no event matches the keyword within the horizon and the       *)
(* Gateway answers, find_calendar_event_by_name returns the 'not found'    *)
(* result, which is none of the error outcomes and follows no exception;   *)
(* it returns it in no other case.                                         *)
C15_NotFoundIsNotAnError ==
    ResolverCalled =>
        /\ (MatchesInHorizon = {} /\ error.type = "none")
              => result.kind = "not_found"
        /\ result.kind = "not_found" =>
              /\ MatchesInHorizon = {}
              /\ error = NoException
              /\ result.kind \notin {"api_error", "error", "raised"}
              /\ Len(requests) = 1

C15_Witness ==
    /\ ResolverCalled
    /\ result.kind = "not_found"
    /\ events # <<>>
    /\ args.event_name = "Project Alpha"

\* The last call was create_calendar_event with a start and an end that
\* parse, the start not before the end.
EmptySpanCall ==
    /\ CreateCalled
    /\ ~NoShape(args.start_datetime) /\ ~NoShape(args.end_datetime)
    /\ parse_datetime(args.start_datetime).dt
         >= parse_datetime(args.end_datetime).dt

(* C16 (as claimed): create_calendar_event with a parseable start that is  *)
(* not before its parseable end inserts no event through the Gateway and   *)
(* does not report success.                                                *)
C16_EmptySpanNeverInserted ==
    EmptySpanCall =>
        /\ \A i \in 1..Len(requests) : requests[i].api # "events.insert"
        /\ result.kind # "created"

(* C17: a call of create_calendar_event reports success exactly when the   *)
(* Gateway accepted its insert, and then returns the identifier the        *)
(* provider gave the new record; when the Gateway rejects the insert it    *)
(* returns the write-failure outcome with the provider's reason, for any   *)
(* other exception the unexpected-error outcome, and in both cases the     *)
(* calendar has no new record.                                             *)
C17_CreateOutcomes ==
    [][op' = "create_calendar_event" =>
        /\ result'.kind \in {"created", "api_error", "error"}
        /\ result'.kind = "created" <=> Len(events') = Len(events) + 1
        /\ result'.kind = "created" =>
              /\ error' = NoException
              /\ Len(requests') = 1 /\ requests'[1].api = "events.insert"
              /\ events'[Len(events')].id = result'.id
              /\ events'[Len(events')].summary = args'.title
              /\ \A i \in 1..Len(events) : events[i].id # result'.id
        /\ result'.kind # "created" => events' = events
        /\ error'.type = "HttpError" <=> result'.kind = "api_error"
        /\ result'.kind = "api_error" =>
              /\ error'.about = "gateway"
              /\ Len(requests') = 1 /\ requests'[1].api = "events.insert"
              /\ error'.detail.reason \in {"forbidden", "backendError"}
              /\ result'.message.about = "gateway"
              /\ result'.message.detail.reason = error'.detail.reason
        /\ error'.type \notin {"none", "HttpError"} <=> result'.kind = "error"
        /\ result'.kind = "error" =>
              result'.message = [about |-> error'.about,
                                 detail |-> error'.detail]
      ]_vars

\* After an accepted insert, the Gateway rejected the insert of another call
\* as forbidden, and the call returned that reason.
C17_Witness ==
    /\ CreateCalled
    /\ result.kind = "api_error"
    /\ result.message.detail.reason = "forbidden"
    /\ \E i \in 1..Len(events) : events[i].inserted

\* The entries of the attendees string of the last call that are not
\* blank, without their surrounding spaces, in the order of the string.
ExpectedAttendees ==
    LET kept == SelectSeq(args.attendees, LAMBDA e : e.text # "")
    IN  [i \in 1..Len(kept) |-> [lead |-> 0, text |-> kept[i].text, trail |-> 0]]

\* The last call was create_calendar_event and it submitted its event.
Submitted == CreateCalled /\ requests # <<>>

(* C18: the attendee list create_calendar_event submits is its attendees   *)
(* string split on commas, every entry stripped of surrounding whitespace  *)
(* and the blank entries dropped, in the order of the string; when the     *)
(* string is empty or has only blank entries the submitted event has no    *)
(* attendees field.                                                        *)
C18_AttendeesStrippedAndFiltered ==
    Submitted =>
        /\ requests[1].attendees.present <=> ExpectedAttendees # <<>>
        /\ requests[1].attendees.value = ExpectedAttendees

C18_Witness ==
    /\ Submitted
    /\ Len(args.attendees) = 2
    /\ args.attendees[1] = Entry(1, "", 1)
    /\ args.attendees[2] = Entry(1, "bo@example.org", 1)
    /\ requests[1].attendees.present

\* The last call was one of the four operations.
Called ==
    op \in {"find_available_slots", "check_specific_time_availability",
            "find_calendar_event_by_name", "create_calendar_event"}

\* The outcomes a call returns for an exception.
FailureOutcomes == {"api_error", "error"}

(* C19: every call of the four operations returns a result: whatever the   *)
(* exception (a failure to build the service handle, no credentials among  *)
(* them, a parse failure, a Gateway failure, a malformed Gateway           *)
(* response), the call ends with a failure outcome and never by raising.   *)
C19_NoFaultCrossesBoundary ==
    Called =>
        /\ result.kind # "raised"
        /\ error.type # "none" <=> result.kind \in FailureOutcomes
        /\ error.about = "gateway" => result.kind = "api_error"
        /\ error.about \in ConstructionFailures \cup {"parse", "response"}
              => result.kind = "error"

C19_Witness ==
    /\ ResolverCalled
    /\ error.about = "response"
    /\ result.kind = "error"

\* The last call got as far as its Gateway request.
ReachedGateway == error.about \notin ConstructionFailures \cup {"parse"}

(* C20: a call issues at most one Gateway request and never repeats it:    *)
(* find_available_slots and check_specific_time_availability issue exactly *)
(* one free/busy query, for the whole window, however many slots the scan  *)
(* looks at, and none when they fail before it; after a Gateway failure    *)
(* the one request stays the only one.                                     *)
C20_OneRequestPerCall ==
    Called =>
        /\ Len(requests) <= 1
        /\ Len(requests) = 1 <=> ReachedGateway
        /\ error.type = "HttpError" => Len(requests) = 1
        /\ (ReachedGateway /\ op = "find_available_slots") =>
              /\ requests[1].api = "freebusy.query"
              /\ requests[1].timeMin
                   = format_datetime_for_api(parse_datetime(args.start_date).dt)
              /\ requests[1].timeMax
                   = format_datetime_for_api(
                         DateOf(parse_datetime(args.end_date).dt) * 86400
                         + 23 * 3600 + 59 * 60 + 59)
        /\ (ReachedGateway /\ op = "check_specific_time_availability") =>
              /\ requests[1].api = "freebusy.query"
              /\ requests[1].timeMin = format_datetime_for_api(
                                           parse_datetime(args.start_datetime).dt)
              /\ requests[1].timeMax = format_datetime_for_api(
                                           parse_datetime(args.end_datetime).dt)

C20_Witness ==
    /\ op = "find_available_slots"
    /\ result.kind = "found"
    /\ Len(available_slots) > 1
    /\ Len(requests) = 1
\* The operations that only read the calendar.
ReadOnlyOperations ==
    {"find_available_slots", "check_specific_time_availability",
     "find_calendar_event_by_name", "get_calendar_events"}

\* The insert requests among the requests of the last call.
InsertRequests(sent) == {i \in 1..Len(sent) : sent[i].api = "events.insert"}

\* C21: only create_calendar_event changes the calendar.  A call of
\* find_available_slots, check_specific_time_availability,
\* find_calendar_event_by_name or get_calendar_events leaves the event
\* records and the busy events as they were, on every path, and sends no
\* insert request; a call of create_calendar_event sends at most one insert
\* request and adds at most one record, keeping the records that were there,
\* and adds none when it fails before it sends its request.
C21_OnlyEventWriterChangesCalendar ==
    [][ /\ op' \in ReadOnlyOperations =>
            /\ events' = events
            /\ calendar' = calendar
            /\ InsertRequests(requests') = {}
        /\ op' = "create_calendar_event" =>
            /\ Cardinality(InsertRequests(requests')) <= 1
            /\ Len(events') \in {Len(events), Len(events) + 1}
            /\ SubSeq(events', 1, Len(events)) = events
            /\ calendar \subseteq calendar'
            /\ Cardinality(calendar' \ calendar) <= 1
            /\ requests' = <<>> => events' = events /\ calendar' = calendar
      ]_vars

\* A reading operation has answered on a calendar that create_calendar_event
\* has added an event to.
C21_Witness ==
    /\ op = "get_calendar_events"
    /\ result.kind = "events"
    /\ Inserted(events) # {}

\* The number of slots the scan found, and the number the result may show.
SlotsFound == Len(available_slots)

SlotsShown == IF SlotsFound < 5 THEN SlotsFound ELSE 5

\* C22: find_available_slots presents at most 5 slots, the first min(5, N)
\* of the N found, each with its own day and start time, in the order found;
\* it reports the true total N; and it reports "N - 5 more" exactly when
\* N > 5 (more = 0 stands for a result without that sentence).
C22_CappedAtFiveWithTrueTotal ==
    Scanned =>
        /\ Len(result.lines) = SlotsShown
        /\ \A i \in 1..Len(result.lines) :
               /\ result.lines[i].date.day = SlotStart(i) \div SecondsPerDay
               /\ result.lines[i].time = [I |-> ClockTime(SlotStart(i)).I,
                                          M |-> ClockTime(SlotStart(i)).M]
               /\ result.lines[i].p = ClockTime(SlotStart(i)).p
        /\ result.total = SlotsFound
        /\ result.kind = "found" <=> SlotsFound > 0
        /\ SlotsFound > 5 => result.more = SlotsFound - 5
        /\ SlotsFound <= 5 => result.more = 0

\* A scan found more than five slots: five are shown and the rest counted.
C22_Witness ==
    /\ Scanned
    /\ SlotsFound > 5
    /\ Len(result.lines) = 5
    /\ result.more = SlotsFound - 5

\* The window of the free/busy query of the last call.
QueryMin == GatewayInstant(requests[1].timeMin)

QueryMax == GatewayInstant(requests[1].timeMax)

\* The k-th candidate of a date is one the scan evaluates.
Evaluated(date, k) == CandidateEnd(date, k) <= DayEnd(date)

\* [s, e] lies within the window of the query.
InsideQuery(s, e) ==
    /\ QueryMin <= s /\ s <= QueryMax
    /\ QueryMin <= e /\ e <= QueryMax

\* C23 (as claimed): the free/busy query of find_available_slots covers
\* everything the scan evaluates.  Its timeMax is 23:59:59 of the end date,
\* and whatever the shape of start_date and end_date, every candidate the
\* scan evaluates on a date of the range, and so every slot it returns,
\* lies within [timeMin, timeMax] of the query.
C23_QueryCoversScan ==
    Scanned =>
        /\ Len(requests) = 1
        /\ QueryMax = MakeDatetime(FinalDate, 23, 59, 59)
        /\ \A date \in RangeDates : \A k \in 0..GridSteps :
               Evaluated(date, k) =>
                   InsideQuery(CandidateStart(date, k), CandidateEnd(date, k))
        /\ \A i \in SlotIndexes : InsideQuery(SlotStart(i), SlotEnd(i))

\* The last call ended with an exception of building the service handle.
ConstructionFailed == error.about \in ConstructionFailures

\* The busy list of the last call is that of the calendar for the window of
\* its query: distinct events of the calendar, among them every event that
\* shares more than a point with the window, none that lies apart from it.
BusyListIsOfCalendar ==
    LET spans == {Event(BusyStart(j), BusyEnd(j)) : j \in BusyIndexes}
    IN  /\ spans \subseteq calendar
        /\ Cardinality(spans) = Len(busy_times)
        /\ \A e \in calendar :
               (e.start < QueryMax /\ e.end > QueryMin) => e \in spans
        /\ \A e \in spans : e.start <= QueryMax /\ e.end >= QueryMin

\* The records of the store that the list request of the last call asks for:
\* those its keyword finds, when it has one, that share more than a point
\* with its window.
AskedFor ==
    {i \in 1..Len(events) :
        /\ \/ requests[1].q = ""
           \/ requests[1].q = events[i].summary
           \/ /\ requests[1].q = "Project Alpha"
              /\ events[i].summary \in {"Project Alpha Kick-off",
                                         "Project Alpha Review"}
        /\ events[i].start < QueryMax
        /\ events[i].end > QueryMin}

\* The place of a record among the records of asked in the order of the
\* list: by start, records of one start in the order of the store.
RecordPlace(i, asked) ==
    Cardinality({k \in asked :
                    \/ events[k].start < events[i].start
                    \/ events[k].start = events[i].start /\ k < i}) + 1

\* The items of the last call are the records the request asks for, the
\* first ten of them at most, in the order of their starts.
ItemsAreOfStore ==
    \A asked \in {AskedFor} :
        /\ Len(event_items) =
              IF Cardinality(asked) < 10 THEN Cardinality(asked) ELSE 10
        /\ \A i \in asked : \A place \in {RecordPlace(i, asked)} :
              place <= Len(event_items) =>
                  /\ event_items[place].id = events[i].id
                  /\ event_items[place].summary = events[i].summary

\* The last call was a find_calendar_event_by_name or a get_calendar_events
\* that the Gateway answered with a list.
Listed ==
    \/ ResolverCalled /\ result.kind \in {"found", "not_found", "degraded"}
    \/ op = "get_calendar_events" /\ result.kind \in {"events", "no_events"}

\* The result of the last call, as its arguments and the calendar fix it:
\* a scan returns the free candidates of the calendar's busy list; a check
\* answers by that list; a lookup and a listing answer by the records of the
\* store the request asks for.
ResultIsOfCalendar ==
    /\ Scanned => BusyListIsOfCalendar /\ SlotsAreTheOrderedCandidates
    /\ Checked =>
          /\ BusyListIsOfCalendar
          /\ result.kind = "available" <=> busy_times = <<>>
          /\ Len(result.conflicts) = Len(busy_times)
    /\ Listed => ItemsAreOfStore
    /\ (ResolverCalled /\ Listed) =>
          /\ result.kind = "not_found" <=> event_items = <<>>
          /\ result.kind # "not_found" =>
                result.summary = event_items[1].summary
    /\ (op = "get_calendar_events" /\ Listed) =>
          /\ result.count = Len(event_items)
          /\ \A n \in 1..Len(event_items) :
                result.lines[n].summary = event_items[n].summary

\* C24: the operations are safe to interleave.  A call runs from its
\* beginning to its end with no other call in between, so that in any order
\* of calls on one SchedulerAssistant the result of each call is the one its
\* arguments and the calendar at the time of the call fix, whatever calls
\* ran before it: a reading call leaves the calendar as it found it and
\* answers by the events and records of that calendar, the ones earlier
\* calls created among them; an accepted create adds exactly the record of
\* its arguments, under a new identifier, and returns that identifier.  The
\* calendar service handle, once set, is never replaced or unset and no
\* later call builds it again; it is set only by a call whose construction
\* succeeded and stays unset when the construction fails, and that call
\* sends no request.
C24_InterleavingsAreSafe ==
    [][ /\ op' \in ReadOnlyOperations =>
            /\ calendar' = calendar /\ events' = events
            /\ ResultIsOfCalendar'
        /\ (op' = "create_calendar_event" /\ result'.kind = "created") =>
            /\ events' =
                 Append(events,
                        [id |-> Len(events) + 1,
                         summary |-> args'.title,
                         start |-> parse_datetime(args'.start_datetime).dt,
                         end |-> parse_datetime(args'.end_datetime).dt,
                         inserted |-> TRUE])
            /\ result'.id = Len(events) + 1
            /\ result'.title = args'.title
        /\ calendar_service = "service" =>
            calendar_service' = "service" /\ ~ConstructionFailed'
        /\ ConstructionFailed' =>
            /\ calendar_service = "None" /\ calendar_service' = "None"
            /\ requests' = <<>>
            /\ result'.kind = "error"
            /\ calendar' = calendar /\ events' = events
        /\ (calendar_service = "None" /\ ~ConstructionFailed') =>
            calendar_service' = "service"
      ]_vars

\* A scan has answered from the Gateway's data, on the handle an earlier
\* call built, after a call of create_calendar_event added an event.
C24_Witness ==
    /\ calendar_service = "service"
    /\ op = "find_available_slots"
    /\ result.kind = "found"
    /\ Inserted(events) # {}

\* C25: check_specific_time_availability asks the Gateway for the busy data
\* of exactly the proposed interval, timeMin the proposed start and timeMax
\* the proposed end, in one query; it answers AVAILABLE exactly when the
\* Gateway reported no busy span; otherwise it lists every span reported,
\* one entry per span in the Gateway's order, each with that span's own
\* start and end.
C25_ExactWindowAndEverySpanListed ==
    Checked =>
        /\ Len(requests) = 1
        /\ requests[1].api = "freebusy.query"
        /\ GatewayInstant(requests[1].timeMin) = ProposedStart
        /\ GatewayInstant(requests[1].timeMax) = ProposedEnd
        /\ result.kind = "available" <=> busy_times = <<>>
        /\ Len(result.conflicts) = Len(busy_times)
        /\ \A j \in BusyIndexes :
               /\ result.conflicts[j].start = ClockTime(BusyStart(j))
               /\ result.conflicts[j].end = ClockTime(BusyEnd(j))

\* The Gateway reported two busy spans for the proposed interval and both
\* are listed.
C25_Witness ==
    /\ Checked
    /\ result.kind = "not_available"
    /\ Len(busy_times) = 2
    /\ Len(result.conflicts) = 2
    /\ result.conflicts[1] # result.conflicts[2]

\* The event find_calendar_event_by_name matched: the first item of the
\* list the Gateway answered with.
MatchedEvent == event_items[1]

\* The start or the end field of the matched event cannot be parsed.
MatchedTimeUnreadable ==
    /\ op = "find_calendar_event_by_name"
    /\ event_items # <<>>
    /\ \/ MatchedEvent.start.dateTime.shape # "isoformat"
       \/ MatchedEvent.end.dateTime.shape # "isoformat"

\* C26: when the start or the end field of the matched event cannot be
\* parsed, find_calendar_event_by_name returns no error outcome: the call
\* ends without an exception and its result is the degraded "found" text,
\* with the event's title and its start field as the Gateway gave them.
C26_UnreadableTimeGivesDegradedResult ==
    MatchedTimeUnreadable =>
        /\ error = NoException
        /\ result.kind = "degraded"
        /\ result.summary = MatchedEvent.summary
        /\ result.start = MatchedEvent.start.dateTime

\* The matched event has a readable start and an unreadable end: the
\* degraded result shows the start as given.
C26_Witness ==
    /\ MatchedTimeUnreadable
    /\ MatchedEvent.start.dateTime.shape = "isoformat"
    /\ result.kind = "degraded"
    /\ result.start = MatchedEvent.start.dateTime

\* C27 (as claimed): every Interval the engine produces or submits has its
\* start strictly before its end: every slot find_available_slots returns,
\* for any integer duration_minutes, zero and negative values included, and
\* every event span create_calendar_event submits to the Gateway.
C27_IntervalsStartBeforeEnd ==
    /\ Scanned => \A i \in SlotIndexes : SlotStart(i) < SlotEnd(i)
    /\ Submitted =>
           GatewayInstant(requests[1].start) < GatewayInstant(requests[1].end)

\* A scan is inside its loops; the call has returned.
InsideLoops == scan.pc \in {"day_loop", "slot_loop"}

ScanReturned == scan.pc = "returned"

\* The slots a scan followed step by step has when it returns are the
\* slots ScanDates gives for the same call and busy periods.
StepwiseScanAgrees ==
    (ScanReturned /\ error = NoException) =>
        /\ available_slots =
               ScanDates(FirstDate, EndDateObj,
                         PreferenceHours(args.time_preference),
                         args.duration_minutes, busy_periods)
        /\ result = ScanResult(available_slots)

\* C28: the scan of find_available_slots always terminates.  For every
\* date range, time preference and integer duration_minutes of the calls,
\* positive, zero or negative, a call that has entered its loops leaves
\* them and returns a result: the inner loop advances slot_start by 30
\* minutes and the outer loop advances current_date by one day on each
\* iteration.
C28_ScanTerminates == InsideLoops ~> ScanReturned

\* A scan of a negative duration over the days up to the last has returned
\* with slots.
C28_Witness ==
    /\ ScanReturned
    /\ result.kind = "found"
    /\ args.duration_minutes < 0
    /\ FirstDate < EndDateObj

====
